---- MODULE Spec2Model ----
(***************************************************************************)
(* Taskify / SupplyChain Sentinel backend: the deterministic decision      *)
(* engine (services/decision_engine.py), the alternative-route lookup      *)
(* (services/impact_service.py), the in-memory catalog                     *)
(* (services/data_service.py) and the action-ticket store                  *)
(* (services/action_service.py over db_models.ActionTicketDB).             *)
(*                                                                         *)
(* Conventions.  A Python Optional[T] is a sequence: <<>> is None and      *)
(* <<x>> is the value x.  A call's outcome is a record whose kind is       *)
(* "return" (with value) or "raise" (with the exception class).  Floats    *)
(* that the code only ever builds from integers are kept as integers in    *)
(* the unit the code uses: cost impact in percent, confidence in           *)
(* hundredths.  The time of a statement (func.now()) is one value: the     *)
(* instants are not told apart.  An empty routes_db or shipments_db is     *)
(* filled with the mock data by the first call that reads it; every        *)
(* action that makes such a call leaves the dict filled.                   *)
(*                                                                         *)
(* Specifications: SpecDecide (one make_decision call), SpecProcess (one   *)
(* process_disruption_decisions call), Spec (the ticket store, one call    *)
(* at a time), SpecConcurrent (create_action_ticket requests whose         *)
(* statements interleave), SpecSeverity (one calculate_severity_score      *)
(* call), SpecImpact (analyze_disruption_impact), SpecEndToEnd (the        *)
(* create_tickets request), SpecStatus (the status operations),            *)
(* SpecNotes (note appends), SpecAlternatives (get_alternative_routes      *)
(* calls), SpecRepeated (one make_decision call repeated, with ticket      *)
(* creation in between) and SpecSeeded (the decision engine on the mock    *)
(* catalog).                                                               *)
(***************************************************************************)
EXTENDS Integers, Sequences, FiniteSets, TLC

VARIABLES
  disruptions,               \* rows of table disruptions, in insertion order
  arg_disruption,            \* calculate_severity_score: argument disruption
  arg_high_priority_count,   \* calculate_severity_score: argument high_priority_count
  routes_db,                 \* data_service.routes_db, in insertion order
  shipments_db,              \* data_service.shipments_db, in insertion order
  action_tickets,            \* rows of table action_tickets, in insertion order
  arg_shipment,              \* make_decision: argument shipment
  arg_operator_response,     \* decision engine: argument operator_response
  arg_duration_hours,        \* decision engine: argument disruption_duration_hours
  arg_affected_shipments,    \* process_disruption_decisions: argument affected_shipments
  ret,                       \* outcome of the decision-engine call
  requests,                  \* in-flight create_action_ticket requests
  last,                      \* the last completed operation
  decided                    \* what a caller that repeats its make_decision call
                             \* has been returned so far, oldest first

vars == <<disruptions, arg_disruption, arg_high_priority_count,
          routes_db, shipments_db, action_tickets, arg_shipment,
          arg_operator_response, arg_duration_hours, arg_affected_shipments,
          ret, requests, last, decided>>

-----------------------------------------------------------------------------
(* Python values *)

None == <<>>
Some(x) == <<x>>

\* Python truthiness of an Optional[int]: None and 0 are both falsy.
Truthy(x) == x # None /\ x[1] # 0

Return(v) == [kind |-> "return", value |-> v]
\* raise e(f"{what} {id} not found")
Raise(e, what, id) == [kind |-> "raise", exc |-> e, what |-> what, id |-> id]
NotCalled == [kind |-> "none"]

Max(a, b) == IF a >= b THEN a ELSE b

-----------------------------------------------------------------------------
(* Python str: a string is used as a value wherever the code only compares  *)
(* it for equality; where the code searches inside it (`a in b`) or changes *)
(* its case (str.lower), Chars gives its characters.                        *)

Chars ==
     ("" :> <<>>)
  @@ ("Chennai" :> <<"C", "h", "e", "n", "n", "a", "i">>)
  @@ ("Chennai Port, India" :> <<"C", "h", "e", "n", "n", "a", "i", " ", "P", "o", "r", "t", ",", " ", "I", "n", "d", "i", "a">>)
  @@ ("Chennai to Dubai" :> <<"C", "h", "e", "n", "n", "a", "i", " ", "t", "o", " ", "D", "u", "b", "a", "i">>)
  @@ ("Chennai to Hong Kong" :> <<"C", "h", "e", "n", "n", "a", "i", " ", "t", "o", " ", "H", "o", "n", "g", " ", "K", "o", "n", "g">>)
  @@ ("Chennai to Singapore" :> <<"C", "h", "e", "n", "n", "a", "i", " ", "t", "o", " ", "S", "i", "n", "g", "a", "p", "o", "r", "e">>)
  @@ ("Chennai to Singapore charter" :> <<"C", "h", "e", "n", "n", "a", "i", " ", "t", "o", " ", "S", "i", "n", "g", "a", "p", "o", "r", "e", " ", "c", "h", "a", "r", "t", "e", "r">>)
  @@ ("Chennai to Singapore direct" :> <<"C", "h", "e", "n", "n", "a", "i", " ", "t", "o", " ", "S", "i", "n", "g", "a", "p", "o", "r", "e", " ", "d", "i", "r", "e", "c", "t">>)
  @@ ("Chennai to Singapore express" :> <<"C", "h", "e", "n", "n", "a", "i", " ", "t", "o", " ", "S", "i", "n", "g", "a", "p", "o", "r", "e", " ", "e", "x", "p", "r", "e", "s", "s">>)
  @@ ("Chennai to Singapore via Port Klang" :> <<"C", "h", "e", "n", "n", "a", "i", " ", "t", "o", " ", "S", "i", "n", "g", "a", "p", "o", "r", "e", " ", "v", "i", "a", " ", "P", "o", "r", "t", " ", "K", "l", "a", "n", "g">>)
  @@ ("Colombo" :> <<"C", "o", "l", "o", "m", "b", "o">>)
  @@ ("Critical" :> <<"C", "r", "i", "t", "i", "c", "a", "l">>)
  @@ ("Dubai" :> <<"D", "u", "b", "a", "i">>)
  @@ ("HIGH" :> <<"H", "I", "G", "H">>)
  @@ ("Hamburg" :> <<"H", "a", "m", "b", "u", "r", "g">>)
  @@ ("Hamburg to Singapore" :> <<"H", "a", "m", "b", "u", "r", "g", " ", "t", "o", " ", "S", "i", "n", "g", "a", "p", "o", "r", "e">>)
  @@ ("Hong Kong" :> <<"H", "o", "n", "g", " ", "K", "o", "n", "g">>)
  @@ ("Honolulu" :> <<"H", "o", "n", "o", "l", "u", "l", "u">>)
  @@ ("Jeddah" :> <<"J", "e", "d", "d", "a", "h">>)
  @@ ("London" :> <<"L", "o", "n", "d", "o", "n">>)
  @@ ("London to Chennai" :> <<"L", "o", "n", "d", "o", "n", " ", "t", "o", " ", "C", "h", "e", "n", "n", "a", "i">>)
  @@ ("Los Angeles" :> <<"L", "o", "s", " ", "A", "n", "g", "e", "l", "e", "s">>)
  @@ ("Mumbai" :> <<"M", "u", "m", "b", "a", "i">>)
  @@ ("Mumbai to Singapore" :> <<"M", "u", "m", "b", "a", "i", " ", "t", "o", " ", "S", "i", "n", "g", "a", "p", "o", "r", "e">>)
  @@ ("New York" :> <<"N", "e", "w", " ", "Y", "o", "r", "k">>)
  @@ ("Pacific" :> <<"P", "a", "c", "i", "f", "i", "c">>)
  @@ ("Pacific Ocean" :> <<"P", "a", "c", "i", "f", "i", "c", " ", "O", "c", "e", "a", "n">>)
  @@ ("Pacific Shipping Lane" :> <<"P", "a", "c", "i", "f", "i", "c", " ", "S", "h", "i", "p", "p", "i", "n", "g", " ", "L", "a", "n", "e">>)
  @@ ("Port Klang" :> <<"P", "o", "r", "t", " ", "K", "l", "a", "n", "g">>)
  @@ ("Rotterdam" :> <<"R", "o", "t", "t", "e", "r", "d", "a", "m">>)
  @@ ("Rotterdam Port, Netherlands" :> <<"R", "o", "t", "t", "e", "r", "d", "a", "m", " ", "P", "o", "r", "t", ",", " ", "N", "e", "t", "h", "e", "r", "l", "a", "n", "d", "s">>)
  @@ ("Rotterdam to Mumbai" :> <<"R", "o", "t", "t", "e", "r", "d", "a", "m", " ", "t", "o", " ", "M", "u", "m", "b", "a", "i">>)
  @@ ("Rotterdam to New York" :> <<"R", "o", "t", "t", "e", "r", "d", "a", "m", " ", "t", "o", " ", "N", "e", "w", " ", "Y", "o", "r", "k">>)
  @@ ("Rotterdam to Shanghai" :> <<"R", "o", "t", "t", "e", "r", "d", "a", "m", " ", "t", "o", " ", "S", "h", "a", "n", "g", "h", "a", "i">>)
  @@ ("San Francisco" :> <<"S", "a", "n", " ", "F", "r", "a", "n", "c", "i", "s", "c", "o">>)
  @@ ("Shanghai" :> <<"S", "h", "a", "n", "g", "h", "a", "i">>)
  @@ ("Shanghai to Honolulu" :> <<"S", "h", "a", "n", "g", "h", "a", "i", " ", "t", "o", " ", "H", "o", "n", "o", "l", "u", "l", "u">>)
  @@ ("Shanghai to San Francisco" :> <<"S", "h", "a", "n", "g", "h", "a", "i", " ", "t", "o", " ", "S", "a", "n", " ", "F", "r", "a", "n", "c", "i", "s", "c", "o">>)
  @@ ("Singapore" :> <<"S", "i", "n", "g", "a", "p", "o", "r", "e">>)
  @@ ("Singapore Hub" :> <<"S", "i", "n", "g", "a", "p", "o", "r", "e", " ", "H", "u", "b">>)
  @@ ("Singapore to Los Angeles" :> <<"S", "i", "n", "g", "a", "p", "o", "r", "e", " ", "t", "o", " ", "L", "o", "s", " ", "A", "n", "g", "e", "l", "e", "s">>)
  @@ ("Suez Canal" :> <<"S", "u", "e", "z", " ", "C", "a", "n", "a", "l">>)
  @@ ("Tokyo" :> <<"T", "o", "k", "y", "o">>)
  @@ ("Trans-Pacific eastbound" :> <<"T", "r", "a", "n", "s", "-", "P", "a", "c", "i", "f", "i", "c", " ", "e", "a", "s", "t", "b", "o", "u", "n", "d">>)
  @@ ("chennai port" :> <<"c", "h", "e", "n", "n", "a", "i", " ", "p", "o", "r", "t">>)
  @@ ("critical" :> <<"c", "r", "i", "t", "i", "c", "a", "l">>)
  @@ ("high" :> <<"h", "i", "g", "h">>)
  @@ ("low" :> <<"l", "o", "w">>)
  @@ ("medium" :> <<"m", "e", "d", "i", "u", "m">>)
  @@ ("severe" :> <<"s", "e", "v", "e", "r", "e">>)
  @@ ("to" :> <<"t", "o">>)

LowerChar ==
     ("A" :> "a")
  @@ ("B" :> "b")
  @@ ("C" :> "c")
  @@ ("D" :> "d")
  @@ ("E" :> "e")
  @@ ("F" :> "f")
  @@ ("G" :> "g")
  @@ ("H" :> "h")
  @@ ("I" :> "i")
  @@ ("J" :> "j")
  @@ ("K" :> "k")
  @@ ("L" :> "l")
  @@ ("M" :> "m")
  @@ ("N" :> "n")
  @@ ("O" :> "o")
  @@ ("P" :> "p")
  @@ ("Q" :> "q")
  @@ ("R" :> "r")
  @@ ("S" :> "s")
  @@ ("T" :> "t")
  @@ ("U" :> "u")
  @@ ("V" :> "v")
  @@ ("W" :> "w")
  @@ ("X" :> "x")
  @@ ("Y" :> "y")
  @@ ("Z" :> "z")

\* str.lower, on the characters
lower(chars) ==
  [i \in 1..Len(chars) |-> IF chars[i] \in DOMAIN LowerChar
                           THEN LowerChar[chars[i]] ELSE chars[i]]

\* `a in b` for two str: a occurs in b as a contiguous run of characters.
Contains(a, b) ==
  LET x == Chars[a]
      y == Chars[b]
  IN \E i \in 0..(Len(y) - Len(x)) : SubSeq(y, i + 1, i + Len(x)) = x

-----------------------------------------------------------------------------
(* models.py *)

CargoType == {"perishable", "standard", "bulk", "hazardous"}
ActionType == {"reroute", "delay", "escalate"}
TicketStatus == {"pending", "approved", "in_progress", "completed", "rejected"}

Route(id, name, origin, destination, via_points, estimated_days, is_active) ==
  [id |-> id, name |-> name, origin |-> origin, destination |-> destination,
   via_points |-> via_points, estimated_days |-> estimated_days,
   is_active |-> is_active]

Shipment(id, route_id, cargo_type, priority, delay_tolerance_hours, cost_increase_tolerance_percent, destination) ==
  [id |-> id, route_id |-> route_id, cargo_type |-> cargo_type,
   priority |-> priority, delay_tolerance_hours |-> delay_tolerance_hours,
   cost_increase_tolerance_percent |-> cost_increase_tolerance_percent,
   destination |-> destination]

Decision(shipment_id, action, reasoning, estimated_cost_impact, estimated_delay_hours, alternative_route_id, confidence_score) ==
  [shipment_id |-> shipment_id, action |-> action, reasoning |-> reasoning,
   estimated_cost_impact |-> estimated_cost_impact,
   estimated_delay_hours |-> estimated_delay_hours,
   alternative_route_id |-> alternative_route_id,
   confidence_score |-> confidence_score]

OperatorResponse(disruption_id, allow_reroute, max_cost_increase_percent) ==
  [disruption_id |-> disruption_id, allow_reroute |-> allow_reroute,
   max_cost_increase_percent |-> max_cost_increase_percent]

DisruptionType == {"port_strike", "weather", "route_closure", "equipment_failure", "customs_delay"}
Severity == {"low", "medium", "high", "critical"}

\* Disruption(...): type and severity are enums; estimated_duration_hours and
\* affected_routes take their defaults when they are not passed.
Disruption(id, type, location, severity, description) ==
  IF type \notin DisruptionType
  THEN Raise("ValidationError", "Disruption.type", id)
  ELSE IF severity \notin Severity
  THEN Raise("ValidationError", "Disruption.severity", id)
  ELSE Return([id |-> id, type |-> type, location |-> location,
               severity |-> severity, description |-> description,
               estimated_duration_hours |-> None, affected_routes |-> <<>>])

\* ImpactAnalysis(...): severity_score is Field(ge=0, le=10); the score is
\* kept in thousandths.
ImpactAnalysis(disruption_id, affected_routes, affected_shipments, total_shipments_impacted, high_priority_count, severity_score) ==
  IF severity_score < 0 \/ severity_score > 10000
  THEN Raise("ValidationError", "ImpactAnalysis.severity_score", disruption_id)
  ELSE Return([disruption_id |-> disruption_id,
               affected_routes |-> affected_routes,
               affected_shipments |-> affected_shipments,
               total_shipments_impacted |-> total_shipments_impacted,
               high_priority_count |-> high_priority_count,
               severity_score |-> severity_score])

-----------------------------------------------------------------------------
(* services/data_service.py *)

get_mock_routes ==
  << Route("ROUTE-001", "Chennai to Singapore", "Chennai", "Singapore", <<"Colombo">>, 7, TRUE),
     Route("ROUTE-002", "Chennai to Dubai", "Chennai", "Dubai", <<"Mumbai">>, 10, TRUE),
     Route("ROUTE-003", "Singapore to Los Angeles", "Singapore", "Los Angeles", <<"Tokyo">>, 18, TRUE),
     Route("ROUTE-004", "Rotterdam to Mumbai", "Rotterdam", "Mumbai", <<"Suez Canal", "Jeddah">>, 21, TRUE),
     Route("ROUTE-005", "Chennai to Hong Kong", "Chennai", "Hong Kong", <<"Singapore">>, 12, TRUE),
     Route("ROUTE-006", "Shanghai to San Francisco", "Shanghai", "San Francisco", <<>>, 16, TRUE),
     Route("ROUTE-007", "Hamburg to Singapore", "Hamburg", "Singapore", <<"Suez Canal", "Colombo">>, 24, TRUE),
     Route("ROUTE-008", "London to Chennai", "London", "Chennai", <<"Suez Canal">>, 20, TRUE),
     Route("ROUTE-009", "Rotterdam to New York", "Rotterdam", "New York", <<>>, 8, TRUE),
     Route("ROUTE-010", "Rotterdam to Shanghai", "Rotterdam", "Shanghai", <<"Suez Canal", "Singapore">>, 28, TRUE) >>

get_mock_shipments ==
  << Shipment("SHIP-001", "ROUTE-001", "perishable", 9, 24, 30, "Singapore"),
     Shipment("SHIP-002", "ROUTE-001", "standard", 5, 72, 15, "Singapore"),
     Shipment("SHIP-003", "ROUTE-002", "bulk", 3, 168, 10, "Dubai"),
     Shipment("SHIP-004", "ROUTE-003", "perishable", 10, 12, 50, "Los Angeles"),
     Shipment("SHIP-005", "ROUTE-004", "hazardous", 8, 48, 20, "Mumbai"),
     Shipment("SHIP-006", "ROUTE-005", "standard", 6, 96, 18, "Hong Kong"),
     Shipment("SHIP-007", "ROUTE-003", "standard", 4, 120, 12, "Los Angeles"),
     Shipment("SHIP-008", "ROUTE-004", "perishable", 9, 36, 35, "Mumbai"),
     Shipment("SHIP-009", "ROUTE-006", "bulk", 2, 240, 8, "San Francisco"),
     Shipment("SHIP-010", "ROUTE-007", "standard", 7, 60, 22, "Singapore") >>

\* get_all_routes with the mock routes written into routes_db at every call.
get_all_routes_refilled == get_mock_routes

\* An empty routes_db is filled with the mock routes by the first function of
\* data_service that reads it, and an empty shipments_db likewise: the value
\* read is also the value the dict has afterwards.
get_all_routes == IF routes_db = <<>> THEN get_mock_routes ELSE routes_db

get_all_shipments == IF shipments_db = <<>> THEN get_mock_shipments ELSE shipments_db

get_route_by_id(route_id) ==
  LET all == get_all_routes
      hits == {i \in 1..Len(all) : all[i].id = route_id}
  IN IF hits = {} THEN Raise("ValueError", "Route", route_id)
     ELSE Return(all[CHOOSE i \in hits : TRUE])

get_shipment_by_id(shipment_id) ==
  LET all == get_all_shipments
      hits == {i \in 1..Len(all) : all[i].id = shipment_id}
  IN IF hits = {} THEN Raise("ValueError", "Shipment", shipment_id)
     ELSE Return(all[CHOOSE i \in hits : TRUE])

-----------------------------------------------------------------------------
(* db_models.py: DisruptionDB; init_db.py; services/disruption_service.py   *)

DisruptionDB(id, type, location, severity, description, status) ==
  [id |-> id, type |-> type, location |-> location, severity |-> severity,
   description |-> description, status |-> status]

seed_disruptions ==
  << DisruptionDB("DISR-001", "port_strike", "Chennai Port, India", "high",
       "Labor strike affecting container operations at Chennai Port. Estimated 3-5 day delay for all shipments.", "active"),
     DisruptionDB("DISR-002", "weather", "Pacific Shipping Lane", "medium",
       "Severe weather conditions in Pacific shipping routes causing delays. Typhoon warning issued.", "active"),
     DisruptionDB("DISR-003", "route_closure", "Suez Canal", "critical",
       "Temporary closure due to vessel grounding. Major impact on Europe-Asia routes.", "active"),
     DisruptionDB("DISR-004", "equipment_failure", "Singapore Hub", "low",
       "Crane malfunction at Singapore container terminal. Reduced processing capacity.", "active"),
     DisruptionDB("DISR-005", "customs_delay", "Rotterdam Port, Netherlands", "medium",
       "Increased customs inspections causing processing delays. Average 2-day additional wait time.", "active") >>

\* db.query(DisruptionDB).filter(DisruptionDB.id == disruption_id).first(),
\* converted; None when there is no such row.
get_disruption(disruption_id) ==
  LET hits == {i \in 1..Len(disruptions) : disruptions[i].id = disruption_id}
  IN IF hits = {} THEN Return(None)
     ELSE LET disruption_db == disruptions[CHOOSE i \in hits : \A j \in hits : i <= j]
          IN Disruption(disruption_db.id, disruption_db.type,
                        disruption_db.location, disruption_db.severity,
                        disruption_db.description)

-----------------------------------------------------------------------------
(* services/impact_service.py *)

\* The lookup without the test of is_active.
get_alternative_routes_inactive_too(origin, destination, exclude_route_ids) ==
  LET Keep(route) == /\ route.origin = origin
                     /\ route.destination = destination
                     /\ route.id \notin exclude_route_ids
  IN SelectSeq(get_all_routes, Keep)

\* The lookup that does not leave out the excluded routes.
get_alternative_routes_excluding_none(origin, destination, exclude_route_ids) ==
  LET Keep(route) == /\ route.origin = origin
                     /\ route.destination = destination
                     /\ route.is_active
  IN SelectSeq(get_all_routes, Keep)

get_alternative_routes(origin, destination, exclude_route_ids) ==
  LET Keep(route) == /\ route.origin = origin
                     /\ route.destination = destination
                     /\ route.id \notin exclude_route_ids
                     /\ route.is_active
  IN SelectSeq(get_all_routes, Keep)

\* The matching with the case of both texts folded.
route_affected_folded(route, location) ==
  LET In(a, b) ==
        LET x == lower(Chars[a])
            y == lower(Chars[b])
        IN \E i \in 0..(Len(y) - Len(x)) : SubSeq(y, i + 1, i + Len(x)) = x
  IN \/ In(route.origin, location)
     \/ In(route.destination, location)
     \/ In(location, route.name)
     \/ \E k \in 1..Len(route.via_points) : In(route.via_points[k], location)
     \/ /\ In("Pacific", location)
        /\ \E k \in 1..Len(route.via_points) : route.via_points[k] = "Pacific Ocean"

\* Lines 39-51: whether a route is affected by a disruption at location.
route_affected(route, location) ==
  LET via_match ==
        \/ \E k \in 1..Len(route.via_points) : Contains(route.via_points[k], location)
        \/ /\ Contains("Pacific", location)
           /\ \E k \in 1..Len(route.via_points) : route.via_points[k] = "Pacific Ocean"
  IN \/ Contains(route.origin, location)
     \/ Contains(route.destination, location)
     \/ Contains(location, route.name)
     \/ via_match

\* severity_map.get(key, 5.0), in tenths; key is the characters of the
\* lowered severity.
severity_map_get(key) ==
  IF key = Chars["low"] THEN 20
  ELSE IF key = Chars["medium"] THEN 50
  ELSE IF key = Chars["high"] THEN 75
  ELSE IF key = Chars["critical"] THEN 90
  ELSE 50

\* The shipment multiplier with its thresholds at 5 and 10 included.
shipment_multiplier_inclusive(affected_shipments) ==
  IF Len(affected_shipments) >= 10 THEN 15
  ELSE IF Len(affected_shipments) >= 5 THEN 13
  ELSE 10

\* Lines 107-111, in tenths.
shipment_multiplier(affected_shipments) ==
  IF Len(affected_shipments) > 10 THEN 15
  ELSE IF Len(affected_shipments) > 5 THEN 13
  ELSE 10

\* The final score returned as it is.
capped_not(final_score) == final_score

\* min(final_score, 10.0), in thousandths.
capped(final_score) == IF final_score <= 10000 THEN final_score ELSE 10000

\* The score is returned in thousandths: the base score and the two
\* multipliers are each kept in tenths.
calculate_severity_score(disruption, affected_shipments, high_priority_count) ==
  LET base_score == severity_map_get(lower(Chars[disruption.severity]))
      priority_multiplier == IF high_priority_count > 0
                             THEN 10 + high_priority_count
                             ELSE 10
      final_score == base_score * shipment_multiplier(affected_shipments)
                                * priority_multiplier
  IN capped(final_score)

\* The high-priority threshold taken as priority > 8.
is_high_priority_above(shipment) == shipment.priority > 8

\* Line 61: the high-priority threshold.
is_high_priority(shipment) == shipment.priority >= 8

\* Lines 26-31: the catalogs are read once the disruption has been found.
reads_catalogs(disruption_id) ==
  LET disruption == get_disruption(disruption_id)
  IN disruption.kind = "return" /\ disruption.value # None

analyze_disruption_impact(disruption_id) ==
  LET disruption == get_disruption(disruption_id)
  IN IF disruption.kind = "raise" THEN disruption
     ELSE IF disruption.value = None
     THEN Raise("ValueError", "Disruption", disruption_id)
     ELSE
       LET all_shipments == get_all_shipments
           Hit(route) == route_affected(route, disruption.value.location)
           affected_routes == SelectSeq(get_all_routes, Hit)
           affected_route_ids == {affected_routes[i].id : i \in 1..Len(affected_routes)}
           OnRoute(shipment) == shipment.route_id \in affected_route_ids
           affected_shipments == SelectSeq(all_shipments, OnRoute)
           high_priority_count == Len(SelectSeq(affected_shipments, is_high_priority))
           severity_score == calculate_severity_score(disruption.value,
                               affected_shipments, high_priority_count)
       IN ImpactAnalysis(disruption_id, affected_routes, affected_shipments,
                         Len(affected_shipments), high_priority_count,
                         severity_score)

-----------------------------------------------------------------------------
(* services/decision_engine.py *)

\* The last element whose key is minimal.
best_alternative_last(alternatives) ==
  LET least == CHOOSE i \in 1..Len(alternatives) :
                 /\ \A j \in 1..Len(alternatives) :
                      alternatives[i].estimated_days <= alternatives[j].estimated_days
                 /\ \A j \in (i+1)..Len(alternatives) :
                      alternatives[j].estimated_days # alternatives[i].estimated_days
  IN alternatives[least]

\* min(alternatives, key=lambda r: r.estimated_days): the first element whose
\* key is minimal.
best_alternative(alternatives) ==
  LET least == CHOOSE i \in 1..Len(alternatives) :
                 /\ \A j \in 1..Len(alternatives) :
                      alternatives[i].estimated_days <= alternatives[j].estimated_days
                 /\ \A j \in 1..(i-1) :
                      alternatives[j].estimated_days # alternatives[i].estimated_days
  IN alternatives[least]

\* max(0, best_alternative.estimated_days - current_route.estimated_days)
extra_days(best, current_route) ==
  Max(0, best.estimated_days - current_route.estimated_days)

_create_reroute_decision(shipment, alternatives, reason) ==
  LET best == best_alternative(alternatives)
      current_route == get_route_by_id(shipment.route_id).value
      extra == extra_days(best, current_route)
  IN Decision(shipment.id, "reroute", reason, Some(extra * 10), Some(extra * 24),
              Some(best.id), 90)

\* A delay whose confidence falls with the number of tickets in the store.
_create_delay_decision_by_store(shipment, delay_hours, reason) ==
  Decision(shipment.id, "delay", reason, Some(0), Some(delay_hours), None,
           85 - Len(action_tickets))

_create_delay_decision(shipment, delay_hours, reason) ==
  Decision(shipment.id, "delay", reason, Some(0), Some(delay_hours), None, 85)

\* An escalation that carries a cost impact of 0.
_create_escalate_decision_zero_cost(shipment, reason) ==
  Decision(shipment.id, "escalate", reason, Some(0), None, None, 95)

_create_escalate_decision(shipment, reason) ==
  Decision(shipment.id, "escalate", reason, None, None, None, 95)

\* The perishable special case reached only after the priority branches.
perishable_override_late(shipment, operator_response, disruption_duration_hours, alternatives) ==
  /\ shipment.priority < 4
  /\ shipment.cargo_type = "perishable"
  /\ Truthy(disruption_duration_hours)
  /\ disruption_duration_hours[1] > 48
  /\ alternatives # <<>>
  /\ operator_response.allow_reroute

\* The perishable special case taken without asking what the operator allows.
perishable_override_unasked(shipment, operator_response, disruption_duration_hours, alternatives) ==
  /\ shipment.cargo_type = "perishable"
  /\ Truthy(disruption_duration_hours)
  /\ disruption_duration_hours[1] > 48
  /\ alternatives # <<>>

\* Lines 47-49: the guard of the perishable special case.
perishable_override(shipment, operator_response, disruption_duration_hours, alternatives) ==
  /\ shipment.cargo_type = "perishable"
  /\ Truthy(disruption_duration_hours)
  /\ disruption_duration_hours[1] > 48
  /\ alternatives # <<>>
  /\ operator_response.allow_reroute

\* high_priority with the duration compared to the tolerance before the
\* tolerance is compared to 24 hours.
high_priority_duration_first(shipment, operator_response, disruption_duration_hours, alternatives) ==
  IF /\ Truthy(disruption_duration_hours)
     /\ disruption_duration_hours[1] <= shipment.delay_tolerance_hours
  THEN _create_delay_decision(shipment, disruption_duration_hours[1],
         "High priority shipment can tolerate the expected delay duration")
  ELSE IF alternatives # <<>> /\ operator_response.allow_reroute
       THEN _create_reroute_decision(shipment, alternatives,
              "Disruption exceeds delay tolerance, rerouting required")
       ELSE _create_escalate_decision(shipment,
              "Disruption exceeds delay tolerance but no reroute options available")

\* Lines 57-89: priority >= 8.
high_priority(shipment, operator_response, disruption_duration_hours, alternatives) ==
  IF shipment.delay_tolerance_hours < 24
  THEN IF alternatives # <<>> /\ operator_response.allow_reroute
       THEN _create_reroute_decision(shipment, alternatives,
              "High priority shipment with low delay tolerance requires immediate rerouting")
       ELSE _create_escalate_decision(shipment,
              "High priority shipment needs rerouting but no alternatives available")
  ELSE IF /\ Truthy(disruption_duration_hours)
          /\ disruption_duration_hours[1] <= shipment.delay_tolerance_hours
       THEN _create_delay_decision(shipment, disruption_duration_hours[1],
              "High priority shipment can tolerate the expected delay duration")
       ELSE IF alternatives # <<>> /\ operator_response.allow_reroute
            THEN _create_reroute_decision(shipment, alternatives,
                   "Disruption exceeds delay tolerance, rerouting required")
            ELSE _create_escalate_decision(shipment,
                   "Disruption exceeds delay tolerance but no reroute options available")

\* Lines 92-119: 4 <= priority <= 7.
medium_priority(shipment, operator_response, disruption_duration_hours, alternatives) ==
  IF shipment.delay_tolerance_hours < 12
  THEN IF alternatives # <<>> /\ operator_response.allow_reroute
       THEN _create_reroute_decision(shipment, alternatives,
              "Medium priority shipment with tight delay tolerance requires rerouting")
       ELSE _create_escalate_decision(shipment,
              "Tight delay tolerance but no reroute options available")
  ELSE IF /\ Truthy(disruption_duration_hours)
          /\ disruption_duration_hours[1] <= shipment.delay_tolerance_hours
          /\ 0 <= shipment.cost_increase_tolerance_percent
       THEN _create_delay_decision(shipment, disruption_duration_hours[1],
              "Medium priority shipment can absorb delay within cost constraints")
       ELSE _create_escalate_decision(shipment,
              "Delay exceeds tolerance and rerouting may exceed cost constraints")

\* low_priority without the 7-day threshold.
low_priority_always_delay(shipment, operator_response, disruption_duration_hours, alternatives) ==
  _create_delay_decision(shipment,
    IF Truthy(disruption_duration_hours) THEN disruption_duration_hours[1] ELSE 48,
    "Low priority shipment scheduled for delay until disruption resolves")

\* Lines 122-133: priority < 4.
low_priority(shipment, operator_response, disruption_duration_hours, alternatives) ==
  IF Truthy(disruption_duration_hours) /\ disruption_duration_hours[1] > 168
  THEN _create_escalate_decision(shipment,
         "Extended delay exceeds acceptable threshold even for low priority")
  ELSE _create_delay_decision(shipment,
         IF Truthy(disruption_duration_hours) THEN disruption_duration_hours[1] ELSE 48,
         "Low priority shipment scheduled for delay until disruption resolves")

make_decision(shipment, operator_response, disruption_duration_hours) ==
  LET current_route == get_route_by_id(shipment.route_id)
  IN IF current_route.kind = "raise" THEN current_route
     ELSE
       LET alternatives == get_alternative_routes(current_route.value.origin,
                                                  shipment.destination,
                                                  {shipment.route_id})
       IN Return(
            IF perishable_override(shipment, operator_response,
                                   disruption_duration_hours, alternatives)
            THEN _create_reroute_decision(shipment, alternatives,
                   "Perishable cargo requires immediate rerouting to prevent spoilage")
            ELSE IF shipment.priority >= 8
            THEN high_priority(shipment, operator_response,
                               disruption_duration_hours, alternatives)
            ELSE IF 4 <= shipment.priority /\ shipment.priority <= 7
            THEN medium_priority(shipment, operator_response,
                                 disruption_duration_hours, alternatives)
            ELSE low_priority(shipment, operator_response,
                              disruption_duration_hours, alternatives))

RECURSIVE decisions_loop(_, _, _, _)
RECURSIVE decisions_loop_skipping(_, _, _, _)
\* The loop with a shipment whose route does not resolve skipped.
decisions_loop_skipping(decisions, rest, operator_response, disruption_duration_hours) ==
  IF rest = <<>> THEN Return(decisions)
  ELSE LET decision == make_decision(Head(rest), operator_response,
                                     disruption_duration_hours)
       IN decisions_loop_skipping(
            IF decision.kind = "raise" THEN decisions
            ELSE Append(decisions, decision.value),
            Tail(rest), operator_response, disruption_duration_hours)

\* The for loop of process_disruption_decisions: the first exception ends the
\* call and the list built so far is dropped.
decisions_loop(decisions, rest, operator_response, disruption_duration_hours) ==
  IF rest = <<>> THEN Return(decisions)
  ELSE LET decision == make_decision(Head(rest), operator_response,
                                     disruption_duration_hours)
       IN IF decision.kind = "raise" THEN decision
          ELSE decisions_loop(Append(decisions, decision.value), Tail(rest),
                              operator_response, disruption_duration_hours)

process_disruption_decisions(disruption_id, shipments, operator_response, disruption_duration_hours) ==
  decisions_loop(<<>>, shipments, operator_response, disruption_duration_hours)

-----------------------------------------------------------------------------
(* models.py: ActionTicket, and the validation pydantic runs when one is    *)
(* built.  `decision: Decision` is a required field that does not admit     *)
(* None; `status: TicketStatus` and `action: ActionType` are enums.         *)
(* ValidationError is a subclass of ValueError.                             *)

ActionTicket(id, disruption_id, shipment_id, destination, action, explanation, status, decision) ==
  IF decision = None
  THEN Raise("ValidationError", "ActionTicket.decision", id)
  ELSE IF status = None \/ status[1] \notin TicketStatus
  THEN Raise("ValidationError", "ActionTicket.status", id)
  ELSE Return([id |-> id, disruption_id |-> disruption_id,
               shipment_id |-> shipment_id, destination |-> destination,
               action |-> action, explanation |-> explanation,
               status |-> status[1], decision |-> decision])

-----------------------------------------------------------------------------
(* db_models.py: ActionTicketDB, and services/action_service.py             *)

\* f"{n:03d}": the decimal digits of n, padded with zeros to three at least.
RECURSIVE Digits(_)
Digits(n) == IF n < 10 THEN <<n>> ELSE Append(Digits(n \div 10), n % 10)

Format03d(n) ==
  LET d == Digits(n)
  IN IF Len(d) >= 3 THEN d ELSE [i \in 1..(3 - Len(d)) |-> 0] \o d

\* The identifier made from the count itself.
ticket_id_of_count(ticket_count) ==
  [prefix |-> "TICKET-", digits |-> Format03d(ticket_count)]

\* f"TICKET-{(ticket_count + 1):03d}"
ticket_id_of(ticket_count) ==
  [prefix |-> "TICKET-", digits |-> Format03d(ticket_count + 1)]

\* func.now(): the time of the statement.  The instants are not told apart.
func_now == "CURRENT_TIMESTAMP"

\* A row as the INSERT leaves it: created_at has server_default=func.now(),
\* updated_at has only onupdate=func.now().
ActionTicketDB(id, disruption_id, shipment_id, action_type, explanation, destination, estimated_delay, priority, created_by, status) ==
  [id |-> id, disruption_id |-> disruption_id, shipment_id |-> shipment_id,
   action_type |-> action_type, explanation |-> explanation,
   destination |-> destination, estimated_delay |-> estimated_delay,
   priority |-> priority, created_by |-> created_by, status |-> status,
   notes |-> None, created_at |-> Some(func_now), updated_at |-> None]

\* ActionTicket(..., action=ActionType(ticket_db.action_type), ..., decision=None)
ticket_db_to_model(ticket_db) ==
  IF ticket_db.action_type \notin ActionType
  THEN Raise("ValueError", "ActionType", ticket_db.id)
  ELSE ActionTicket(ticket_db.id, ticket_db.disruption_id, ticket_db.shipment_id,
                    ticket_db.destination, ticket_db.action_type,
                    ticket_db.explanation, ticket_db.status, None)

\* The narrative, kept as the template chosen and the values put into it.
generate_explanation(decision) ==
  LET shipment == get_shipment_by_id(decision.shipment_id)
  IN IF shipment.kind = "raise" THEN shipment
     ELSE IF decision.action = "reroute"
     THEN LET alt_route == IF decision.alternative_route_id # None
                           THEN get_route_by_id(decision.alternative_route_id[1])
                           ELSE Return(None)
          IN IF alt_route.kind = "raise" THEN alt_route
             ELSE Return([template |-> "Reroute", shipment |-> shipment.value,
                          reasoning |-> decision.reasoning,
                          alt_route |-> alt_route.value,
                          estimated_cost_impact |-> decision.estimated_cost_impact,
                          estimated_delay_hours |-> decision.estimated_delay_hours])
     ELSE IF decision.action = "delay"
     THEN Return([template |-> "Delay", shipment |-> shipment.value,
                  reasoning |-> decision.reasoning,
                  estimated_delay_hours |-> decision.estimated_delay_hours])
     ELSE Return([template |-> "Escalate", shipment |-> shipment.value,
                  reasoning |-> decision.reasoning])

\* db.query(ActionTicketDB).filter(shipment_id == ..., disruption_id == ...).first()
find_existing(tickets, disruption_id, shipment_id) ==
  LET hits == {i \in 1..Len(tickets) : /\ tickets[i].shipment_id = shipment_id
                                       /\ tickets[i].disruption_id = disruption_id}
  IN IF hits = {} THEN None
     ELSE Some(tickets[CHOOSE i \in hits : \A j \in hits : i <= j])

\* db.query(ActionTicketDB).count()
count(tickets) == Len(tickets)

\* Lines 44-55: the row built from the decision, or the exception raised on
\* the way.
new_ticket_db(ticket_count, disruption_id, decision, operator_id) ==
  LET explanation == generate_explanation(decision)
      shipment == get_shipment_by_id(decision.shipment_id)
  IN IF explanation.kind = "raise" THEN explanation
     ELSE Return(ActionTicketDB(
            ticket_id_of(ticket_count), disruption_id, decision.shipment_id,
            decision.action, explanation.value, shipment.value.destination,
            IF Truthy(decision.estimated_delay_hours)
            THEN Some(<<decision.estimated_delay_hours[1], " hours">>)
            ELSE None,
            <<"str", shipment.value.priority>>, operator_id, Some("pending")))

\* db.add(ticket_db); db.commit(): the primary key of action_tickets is id.
insert(tickets, ticket_db) ==
  IF \E i \in 1..Len(tickets) : tickets[i].id = ticket_db.id
  THEN [tickets |-> tickets,
        ret |-> Raise("IntegrityError", "action_tickets.id", ticket_db.id)]
  ELSE [tickets |-> Append(tickets, ticket_db),
        ret |-> ticket_db_to_model(ticket_db)]

\* Line 34: create_action_ticket reads the shipment catalog unless it found
\* an existing ticket.
reads_shipments(tickets, disruption_id, decision) ==
  find_existing(tickets, disruption_id, decision.shipment_id) = None

\* Line 86: generate_explanation reads the route catalog for a reroute that
\* names an alternative route.
explanation_reads_routes(decision) ==
  /\ get_shipment_by_id(decision.shipment_id).kind = "return"
  /\ decision.action = "reroute"
  /\ decision.alternative_route_id # None

reads_routes(tickets, disruption_id, decision) ==
  /\ reads_shipments(tickets, disruption_id, decision)
  /\ explanation_reads_routes(decision)

\* create_action_ticket run from start to end with no other request in
\* between: the table it leaves and what the caller gets.
create_action_ticket(tickets, disruption_id, decision, operator_id) ==
  LET existing_ticket == find_existing(tickets, disruption_id, decision.shipment_id)
  IN IF existing_ticket # None
     THEN [tickets |-> tickets, ret |-> ticket_db_to_model(existing_ticket[1])]
     ELSE LET shipment == get_shipment_by_id(decision.shipment_id)
          IN IF shipment.kind = "raise" THEN [tickets |-> tickets, ret |-> shipment]
             ELSE LET ticket_db == new_ticket_db(count(tickets), disruption_id,
                                                 decision, operator_id)
                  IN IF ticket_db.kind = "raise"
                     THEN [tickets |-> tickets, ret |-> ticket_db]
                     ELSE insert(tickets, ticket_db.value)

\* db.query(ActionTicketDB).filter(ActionTicketDB.id == ticket_id).first()
find_by_id(tickets, ticket_id) ==
  LET hits == {i \in 1..Len(tickets) : tickets[i].id = ticket_id}
  IN IF hits = {} THEN 0 ELSE CHOOSE i \in hits : \A j \in hits : i <= j

update_ticket_status(tickets, ticket_id, status) ==
  LET i == find_by_id(tickets, ticket_id)
  IN IF i = 0 THEN [tickets |-> tickets, ret |-> Return(None)]
     ELSE LET \* the commit writes the row, and with it updated_at, only
              \* when the assignment changed the attribute
              updated == IF tickets[i].status = status THEN tickets
                         ELSE [tickets EXCEPT ![i].status = status,
                                              ![i].updated_at = Some(func_now)]
          IN [tickets |-> updated, ret |-> ticket_db_to_model(updated[i])]

\* add_ticket_note with the new note written over the notes there were.
add_ticket_note_replacing(tickets, ticket_id, note, timestamp) ==
  LET i == find_by_id(tickets, ticket_id)
  IN IF i = 0 THEN [tickets |-> tickets, ret |-> Return(None)]
     ELSE LET updated == [tickets EXCEPT ![i].notes = Some(<<<<timestamp, note>>>>),
                                         ![i].updated_at = Some(func_now)]
          IN [tickets |-> updated, ret |-> ticket_db_to_model(updated[i])]

\* The notes text is kept as its lines, each "[timestamp] note".
add_ticket_note(tickets, ticket_id, note, timestamp) ==
  LET i == find_by_id(tickets, ticket_id)
  IN IF i = 0 THEN [tickets |-> tickets, ret |-> Return(None)]
     ELSE LET existing_notes == IF tickets[i].notes = None THEN <<>>
                                ELSE tickets[i].notes[1]
              new_note == <<timestamp, note>>
              updated == [tickets EXCEPT ![i].notes =
                            Some(IF existing_notes # <<>>
                                 THEN Append(existing_notes, new_note)
                                 ELSE <<new_note>>),
                                         ![i].updated_at = Some(func_now)]
          IN [tickets |-> updated, ret |-> ticket_db_to_model(updated[i])]

-----------------------------------------------------------------------------
(* main.py: POST /api/tickets/{disruption_id}                               *)

\* raise HTTPException(status_code=..., detail=...): the response of a
\* request that did not return.
HTTPException(status_code, detail) ==
  [kind |-> "raise", exc |-> "HTTPException", status_code |-> status_code,
   detail |-> detail]

\* Lines 311-317: `except ValueError` answers 404 and `except Exception`
\* answers 500.  pydantic's ValidationError is a ValueError; an
\* HTTPException raised inside the try block is not.
create_tickets_except(raised) ==
  IF raised.exc \in {"ValueError", "ValidationError"}
  THEN HTTPException(404, raised)
  ELSE HTTPException(500, raised)

\* Lines 297-306: the for loop over the decisions.  An exception ends it;
\* what was committed before stays committed.
RECURSIVE created_tickets_loop(_, _, _, _, _)
created_tickets_loop(tickets, created_tickets, rest, disruption_id, operator_id) ==
  IF rest = <<>> THEN [tickets |-> tickets, ret |-> Return(created_tickets)]
  ELSE LET out == create_action_ticket(tickets, disruption_id, Head(rest), operator_id)
       IN IF out.ret.kind = "raise" THEN out
          ELSE created_tickets_loop(out.tickets,
                                    Append(created_tickets, out.ret.value),
                                    Tail(rest), disruption_id, operator_id)

\* The handler is written in stages, each taking the value the stage before
\* it produced; a value is bound through a singleton set so that it is
\* computed once.

\* Lines 296-309: the tickets are created and the list is returned.
create_tickets_created(tickets, disruption_id, operator_id, decisions) ==
  CHOOSE response \in
    {IF out.ret.kind = "raise"
     THEN [tickets |-> out.tickets, ret |-> create_tickets_except(out.ret)]
     ELSE out :
       out \in {created_tickets_loop(tickets, <<>>, decisions, disruption_id,
                                     operator_id)}} : TRUE

\* Lines 287-294: the decisions, for the duration of the disruption or for
\* 72 hours when it has none.
create_tickets_decided(tickets, disruption_id, operator_response, operator_id, disruption, impact) ==
  CHOOSE response \in
    {IF decisions.kind = "raise"
     THEN [tickets |-> tickets, ret |-> create_tickets_except(decisions)]
     ELSE create_tickets_created(tickets, disruption_id, operator_id,
                                 decisions.value) :
       decisions \in {process_disruption_decisions(
                        disruption_id, impact.affected_shipments,
                        operator_response,
                        IF Truthy(disruption.estimated_duration_hours)
                        THEN disruption.estimated_duration_hours
                        ELSE Some(72))}} : TRUE

\* Lines 283-285: the impact analysis.
create_tickets_analyzed(tickets, disruption_id, operator_response, operator_id, disruption) ==
  CHOOSE response \in
    {IF impact.kind = "raise"
     THEN [tickets |-> tickets, ret |-> create_tickets_except(impact)]
     ELSE create_tickets_decided(tickets, disruption_id, operator_response,
                                 operator_id, disruption, impact.value) :
       impact \in {analyze_disruption_impact(disruption_id)}} : TRUE

\* The handler from the lookup of the disruption (lines 279-281) to its
\* response: the table it leaves and what the client gets.
create_tickets(tickets, disruption_id, operator_response, operator_id) ==
  CHOOSE response \in
    {IF disruption.kind = "raise"
     THEN [tickets |-> tickets, ret |-> create_tickets_except(disruption)]
     ELSE IF disruption.value = None
     THEN [tickets |-> tickets,
           ret |-> create_tickets_except(HTTPException(404, "Disruption not found"))]
     ELSE create_tickets_analyzed(tickets, disruption_id, operator_response,
                                  operator_id, disruption.value) :
       disruption \in {get_disruption(disruption_id)}} : TRUE

-----------------------------------------------------------------------------
(* Inputs of the decision engine *)

MaxShipments == 3

\* A catalog that offers ROUTE-001 three alternatives to Singapore (two of
\* them tied on transit days), one inactive route and one from another origin.
CatalogAlternatives ==
  << Route("ROUTE-001", "Chennai to Singapore", "Chennai", "Singapore", <<"Colombo">>, 7, TRUE),
     Route("ROUTE-002", "Chennai to Dubai", "Chennai", "Dubai", <<"Mumbai">>, 10, TRUE),
     Route("ROUTE-011", "Chennai to Singapore via Port Klang", "Chennai", "Singapore", <<"Port Klang">>, 9, TRUE),
     Route("ROUTE-012", "Chennai to Singapore direct", "Chennai", "Singapore", <<>>, 5, TRUE),
     Route("ROUTE-013", "Chennai to Singapore express", "Chennai", "Singapore", <<>>, 5, TRUE),
     Route("ROUTE-014", "Chennai to Singapore charter", "Chennai", "Singapore", <<>>, 3, FALSE),
     Route("ROUTE-015", "Mumbai to Singapore", "Mumbai", "Singapore", <<"Colombo">>, 2, TRUE) >>

\* The only alternative is slower than the current route.
CatalogSlower ==
  << Route("ROUTE-001", "Chennai to Singapore", "Chennai", "Singapore", <<"Colombo">>, 7, TRUE),
     Route("ROUTE-011", "Chennai to Singapore via Port Klang", "Chennai", "Singapore", <<"Port Klang">>, 9, TRUE) >>

\* The tied alternatives in the other order of insertion.
CatalogTie ==
  << Route("ROUTE-013", "Chennai to Singapore express", "Chennai", "Singapore", <<>>, 5, TRUE),
     Route("ROUTE-001", "Chennai to Singapore", "Chennai", "Singapore", <<"Colombo">>, 7, TRUE),
     Route("ROUTE-012", "Chennai to Singapore direct", "Chennai", "Singapore", <<>>, 5, TRUE),
     Route("ROUTE-002", "Chennai to Dubai", "Chennai", "Dubai", <<"Mumbai">>, 4, TRUE) >>

\* <<>> is the catalog before first use: the mock routes.
Catalogs == {<<>>, CatalogAlternatives, CatalogSlower, CatalogTie}

Priorities == {2, 3, 4, 7, 8, 9}
DelayTolerances == {0, 11, 12, 23, 24, 72}
CostTolerances == {0, 15}
RouteIds == {"ROUTE-001", "ROUTE-002", "ROUTE-999"}
Destinations == {"Singapore", "Dubai"}

Shipments ==
  {Shipment("SHIP-001", r, c, p, t, k, d) :
     r \in RouteIds, c \in {"perishable", "standard", "hazardous"},
     p \in Priorities, t \in DelayTolerances, k \in CostTolerances,
     d \in Destinations}

OperatorResponses ==
  {OperatorResponse("DISR-001", a, 25) : a \in BOOLEAN}

Durations ==
  {None} \cup {Some(h) : h \in {0, 10, 24, 25, 48, 49, 72, 73, 168, 169, 200}}

\* The shipments process_disruption_decisions is given lists of: catalog
\* shipments and two whose routes are in no catalog.
SampleShipments ==
  {get_mock_shipments[1], get_mock_shipments[2], get_mock_shipments[3],
   Shipment("SHIP-998", "ROUTE-998", "standard", 5, 72, 15, "Singapore"),
   Shipment("SHIP-999", "ROUTE-999", "perishable", 9, 24, 30, "Dubai")}

ShipmentLists ==
  UNION {[1..n -> SampleShipments] : n \in 0..MaxShipments}

-----------------------------------------------------------------------------
(* The decision engine as a state machine: the arguments are drawn in the   *)
(* initial state and the call is one step.                                  *)

NoRequests == <<>>
NoOperation == [op |-> "none"]

InitDecide ==
  /\ routes_db \in Catalogs
  /\ shipments_db = <<>>
  /\ disruptions = seed_disruptions
  /\ arg_disruption = None
  /\ arg_high_priority_count = 0
  /\ action_tickets = <<>>
  /\ arg_shipment \in Shipments
  /\ arg_operator_response \in OperatorResponses
  /\ arg_duration_hours \in Durations
  /\ arg_affected_shipments = <<>>
  /\ ret = NotCalled
  /\ requests = NoRequests
  /\ last = NoOperation
  /\ decided = <<>>

MakeDecision ==
  /\ ret = NotCalled
  /\ ret' = make_decision(arg_shipment, arg_operator_response, arg_duration_hours)
  \* line 37: get_route_by_id fills an empty routes_db
  /\ routes_db' = get_all_routes
  /\ UNCHANGED <<decided, disruptions, arg_disruption, arg_high_priority_count,
                 shipments_db, action_tickets, arg_shipment,
                 arg_operator_response, arg_duration_hours,
                 arg_affected_shipments, requests, last>>

NextDecide == MakeDecision

SpecDecide == InitDecide /\ [][NextDecide]_vars

\* The operator's maximum is any percentage from 0 to 100 (models.py line
\* 216); one response allows less than a reroute by CatalogSlower costs.
ProcessOperatorResponses ==
  OperatorResponses \cup {OperatorResponse("DISR-001", TRUE, 10)}

InitProcess ==
  /\ routes_db \in {<<>>, CatalogAlternatives, CatalogSlower}
  /\ shipments_db = <<>>
  /\ disruptions = seed_disruptions
  /\ arg_disruption = None
  /\ arg_high_priority_count = 0
  /\ action_tickets = <<>>
  /\ arg_shipment = None
  /\ arg_operator_response \in ProcessOperatorResponses
  /\ arg_duration_hours \in {None, Some(0), Some(10), Some(72), Some(200)}
  /\ arg_affected_shipments \in ShipmentLists
  /\ ret = NotCalled
  /\ requests = NoRequests
  /\ last = NoOperation
  /\ decided = <<>>

ProcessDisruptionDecisions ==
  /\ ret = NotCalled
  /\ ret' = process_disruption_decisions(arg_operator_response.disruption_id,
                                         arg_affected_shipments,
                                         arg_operator_response,
                                         arg_duration_hours)
  \* make_decision is called for the first shipment, if there is one
  /\ routes_db' = IF arg_affected_shipments = <<>> THEN routes_db
                  ELSE get_all_routes
  /\ UNCHANGED <<decided, disruptions, arg_disruption, arg_high_priority_count,
                 shipments_db, action_tickets, arg_shipment,
                 arg_operator_response, arg_duration_hours,
                 arg_affected_shipments, requests, last>>

NextProcess == ProcessDisruptionDecisions

SpecProcess == InitProcess /\ [][NextProcess]_vars

-----------------------------------------------------------------------------
(* Properties of make_decision, stated over the arguments and the outcome   *)
(* of the call (specification SpecDecide).                                  *)

Decided == ret.kind = "return"

CurrentRoute ==
  LET all == get_all_routes
  IN all[CHOOSE i \in 1..Len(all) : all[i].id = arg_shipment.route_id]

\* The positions in the catalog of the routes that can replace the current one.
AlternativePositions ==
  LET all == get_all_routes
  IN {i \in 1..Len(all) : /\ all[i].is_active
                          /\ all[i].origin = CurrentRoute.origin
                          /\ all[i].destination = arg_shipment.destination
                          /\ all[i].id # arg_shipment.route_id}

CanReroute == AlternativePositions # {} /\ arg_operator_response.allow_reroute

Specified == arg_duration_hours # None
Duration == arg_duration_hours[1]

OverrideApplies ==
  /\ arg_shipment.cargo_type = "perishable"
  /\ Specified /\ Duration > 48
  /\ CanReroute

PerishableReason == "Perishable cargo requires immediate rerouting to prevent spoilage"

\* C3: a perishable shipment facing a disruption longer than 48 hours, with an
\* alternative route and rerouting allowed, is rerouted for the spoilage
\* reason, whatever its priority and delay tolerance.
C3_PerishableOverride ==
  (Decided /\ OverrideApplies) =>
     /\ ret.value.action = "reroute"
     /\ ret.value.reasoning = PerishableReason

\* Scenario A: 72 hours, priority 9, tolerance 24 hours; the high-priority
\* branch alone would have produced another reason.
C3_Witness ==
  /\ Decided /\ OverrideApplies
  /\ Duration = 72 /\ arg_shipment.priority = 9
  /\ arg_shipment.delay_tolerance_hours = 24
  /\ ret.value.action = "reroute"
  /\ ret.value.reasoning = PerishableReason

HighMustAct ==
  /\ arg_shipment.priority >= 8
  /\ \/ arg_shipment.delay_tolerance_hours < 24
     \/ /\ arg_shipment.delay_tolerance_hours >= 24
        /\ Specified /\ Duration > arg_shipment.delay_tolerance_hours

\* C4: a high-priority shipment whose tolerance is below 24 hours, or whose
\* tolerance the disruption exceeds, is never delayed: it is rerouted when an
\* alternative exists and rerouting is allowed, and escalated with no
\* alternative route otherwise.
C4_HighPriorityRerouteOrEscalate ==
  (Decided /\ HighMustAct) =>
     /\ ret.value.action # "delay"
     /\ CanReroute => ret.value.action = "reroute"
     /\ ~CanReroute => /\ ret.value.action = "escalate"
                       /\ ret.value.alternative_route_id = None

\* Scenario D: priority 9, tolerance below 24 hours, no alternative, and a
\* duration the shipment could have absorbed had its tolerance counted.
C4_Witness ==
  /\ Decided /\ HighMustAct
  /\ arg_shipment.priority = 9
  /\ arg_shipment.delay_tolerance_hours = 11
  /\ arg_duration_hours = Some(10)
  /\ AlternativePositions = {}
  /\ ret.value.action = "escalate"
  /\ ret.value.alternative_route_id = None

\* C5: a high-priority shipment with tolerance >= 24 hours, outside the
\* perishable override, is delayed for exactly the duration whenever the
\* duration is at most the tolerance.
C5_HighPriorityDelayBoundary ==
  (/\ Decided
   /\ arg_shipment.priority >= 8
   /\ arg_shipment.delay_tolerance_hours >= 24
   /\ ~OverrideApplies
   /\ Specified /\ Duration <= arg_shipment.delay_tolerance_hours) =>
     /\ ret.value.action = "delay"
     /\ ret.value.estimated_delay_hours = Some(Duration)

\* C6: the medium-priority cascade.
C6_MediumPriorityCascade ==
  (/\ Decided
   /\ 4 <= arg_shipment.priority /\ arg_shipment.priority <= 7
   /\ ~OverrideApplies) =>
     IF arg_shipment.delay_tolerance_hours < 12
     THEN ret.value.action = (IF CanReroute THEN "reroute" ELSE "escalate")
     ELSE IF Specified /\ Duration <= arg_shipment.delay_tolerance_hours
     THEN /\ ret.value.action = "delay"
          /\ ret.value.estimated_delay_hours = Some(Duration)
     ELSE ret.value.action = "escalate"

\* C7: the low-priority cascade.
C7_LowPriorityCascade ==
  (/\ Decided
   /\ arg_shipment.priority < 4
   /\ ~OverrideApplies) =>
     IF Specified /\ Duration > 168
     THEN ret.value.action = "escalate"
     ELSE /\ ret.value.action = "delay"
          /\ ret.value.estimated_delay_hours =
               (IF Specified THEN Some(Duration) ELSE Some(48))

\* C8 as stated: a low-priority shipment facing more than 168 hours is
\* escalated, for every cargo type, catalog and operator response.
C8_ScenarioC_AsStated ==
  (Decided /\ arg_shipment.priority < 4 /\ Specified /\ Duration > 168) =>
     ret.value.action = "escalate"

\* C8 amended: a low-priority shipment facing more than 168 hours is
\* escalated unless the perishable override applies, and then it is rerouted.
C8_ScenarioC ==
  (Decided /\ arg_shipment.priority < 4 /\ Specified /\ Duration > 168) =>
     ret.value.action = (IF OverrideApplies THEN "reroute" ELSE "escalate")

\* Scenario C: 200 hours, priority 2, and a reroute was on offer.
C8_Witness ==
  /\ Decided /\ arg_shipment.priority = 2 /\ arg_duration_hours = Some(200)
  /\ arg_shipment.cargo_type = "standard"
  /\ CanReroute
  /\ ret.value.action = "escalate"

\* C9: a reroute names the first alternative of minimum transit days, and
\* its cost impact and delay are 10 percent and 24 hours per day by which
\* that alternative is slower than the current route, never negative.
C9_AlternativeSelection ==
  (Decided /\ ret.value.action = "reroute") =>
     LET all == get_all_routes
         slower(i) == Max(0, all[i].estimated_days - CurrentRoute.estimated_days)
     IN \E i \in AlternativePositions :
          /\ ret.value.alternative_route_id = Some(all[i].id)
          /\ \A j \in AlternativePositions :
               /\ all[i].estimated_days <= all[j].estimated_days
               /\ all[j].estimated_days = all[i].estimated_days => i <= j
          /\ ret.value.estimated_cost_impact = Some(slower(i) * 10)
          /\ ret.value.estimated_delay_hours = Some(slower(i) * 24)
          /\ ret.value.estimated_cost_impact[1] >= 0
          /\ ret.value.estimated_delay_hours[1] >= 0
          /\ all[i].estimated_days <= CurrentRoute.estimated_days =>
               /\ ret.value.estimated_cost_impact = Some(0)
               /\ ret.value.estimated_delay_hours = Some(0)

\* A reroute chosen among tied alternatives, the chosen one faster than the
\* current route.
C9_Witness ==
  /\ Decided /\ ret.value.action = "reroute"
  /\ LET all == get_all_routes
     IN \E i, j \in AlternativePositions :
          /\ i < j
          /\ all[i].estimated_days = all[j].estimated_days
          /\ ret.value.alternative_route_id = Some(all[i].id)
          /\ all[i].estimated_days < CurrentRoute.estimated_days
          /\ ret.value.estimated_cost_impact = Some(0)

-----------------------------------------------------------------------------
(* Properties of process_disruption_decisions (specification SpecProcess).  *)

Unresolved(s) == \A i \in 1..Len(get_all_routes) : get_all_routes[i].id # s.route_id

FailingPositions ==
  {i \in 1..Len(arg_affected_shipments) : Unresolved(arg_affected_shipments[i])}

\* C10: one decision per input shipment, in input order, when every route
\* resolves; otherwise the not-found error of the first shipment whose route
\* does not resolve, and no list.
C10_ProcessDecisions ==
  ret.kind # "none" =>
     IF FailingPositions = {}
     THEN /\ ret.kind = "return"
          /\ Len(ret.value) = Len(arg_affected_shipments)
          /\ \A i \in 1..Len(arg_affected_shipments) :
               ret.value[i].shipment_id = arg_affected_shipments[i].id
     ELSE LET first == CHOOSE i \in FailingPositions :
                         \A j \in FailingPositions : i <= j
          IN /\ ret.kind = "raise"
             /\ ret.exc = "ValueError"
             /\ ret.what = "Route"
             /\ ret.id = arg_affected_shipments[first].route_id

\* A list with a repeated shipment, answered in order.
C10_Witness ==
  /\ ret.kind = "return"
  /\ Len(arg_affected_shipments) = 3
  /\ arg_affected_shipments[1] = arg_affected_shipments[3]
  /\ arg_affected_shipments[1] # arg_affected_shipments[2]
  /\ Len(ret.value) = 3
  /\ ret.value[2].shipment_id = arg_affected_shipments[2].id

\* Two shipments fail to resolve, after one that does: the error is the
\* first one's.
C10_WitnessError ==
  /\ ret.kind = "raise"
  /\ Cardinality(FailingPositions) = 2
  /\ 1 \notin FailingPositions
  /\ arg_affected_shipments[2].route_id # arg_affected_shipments[3].route_id

-----------------------------------------------------------------------------
(* The ticket store under sequential use: each action is one call of        *)
(* action_service run to its end.  The catalogs start empty.                *)

MaxTickets == 2
MaxNotes == 1

OperatorIds == {"OP-001"}

DelayShip1 ==
  Decision("SHIP-001", "delay", "High priority shipment can tolerate the expected delay duration",
           Some(0), Some(10), None, 85)
EscalateShip1 ==
  Decision("SHIP-001", "escalate", "Disruption exceeds delay tolerance but no reroute options available",
           None, None, None, 95)
RerouteShip2 ==
  Decision("SHIP-002", "reroute", "Medium priority shipment with tight delay tolerance requires rerouting",
           Some(30), Some(72), Some("ROUTE-002"), 90)
\* A reroute onto a route that is not in the catalog.
RerouteShip2NoRoute ==
  Decision("SHIP-002", "reroute", "Medium priority shipment with tight delay tolerance requires rerouting",
           Some(0), Some(0), Some("ROUTE-999"), 90)
\* A decision for a shipment that is not in the catalog.
DelayShip404 ==
  Decision("SHIP-404", "delay", "Low priority shipment scheduled for delay until disruption resolves",
           Some(0), Some(48), None, 85)

\* The calls of create_action_ticket: <<disruption_id, decision>>.
TicketCalls ==
  { <<"DISR-001", DelayShip1>>, <<"DISR-001", EscalateShip1>>,
    <<"DISR-001", RerouteShip2>>, <<"DISR-002", DelayShip1>>,
    <<"DISR-002", RerouteShip2NoRoute>>, <<"DISR-001", DelayShip404>> }

\* TICKET-001 .. TICKET-<MaxTickets + 1>; the last is never in the store.
TicketIds == {ticket_id_of(k) : k \in 0..MaxTickets}

\* What PATCH /api/tickets/{id}/status may carry: update.get("status").
StatusInputs == {Some("approved"), Some("pending"), Some("archived"), None}

\* What a caller of update_ticket_status(ticket_id, status: str, db) passes.
StatusArguments == {Some("approved"), Some("pending"), Some("archived")}

NoteTexts == {"carrier informed"}
Timestamps == {"2026-01-08 12:30:00"}

\* The number of notes in the store.
RECURSIVE NotesIn(_)
NotesIn(tickets) ==
  IF tickets = <<>> THEN 0
  ELSE (IF Head(tickets).notes = None THEN 0 ELSE Len(Head(tickets).notes[1]))
       + NotesIn(Tail(tickets))

Init ==
  /\ routes_db = <<>>
  /\ shipments_db = <<>>
  /\ disruptions = seed_disruptions
  /\ arg_disruption = None
  /\ arg_high_priority_count = 0
  /\ action_tickets = <<>>
  /\ arg_shipment = None
  /\ arg_operator_response = None
  /\ arg_duration_hours = None
  /\ arg_affected_shipments = <<>>
  /\ ret = NotCalled
  /\ requests = NoRequests
  /\ last = NoOperation
  /\ decided = <<>>

CreateActionTicket ==
  \E call \in TicketCalls, operator_id \in OperatorIds :
    LET disruption_id == call[1]
        decision == call[2]
        out == create_action_ticket(action_tickets, disruption_id, decision,
                                    operator_id)
    IN /\ Len(out.tickets) <= MaxTickets
       /\ action_tickets' = out.tickets
       /\ ret' = out.ret
       /\ last' = [op |-> "create_action_ticket", disruption_id |-> disruption_id,
                   shipment_id |-> decision.shipment_id, action |-> decision.action]
       /\ shipments_db' = IF reads_shipments(action_tickets, disruption_id, decision)
                          THEN get_all_shipments ELSE shipments_db
       /\ routes_db' = IF reads_routes(action_tickets, disruption_id, decision)
                       THEN get_all_routes ELSE routes_db
       /\ UNCHANGED <<decided, disruptions, arg_disruption, arg_high_priority_count,
                      arg_shipment, arg_operator_response,
                      arg_duration_hours, arg_affected_shipments, requests>>

UpdateTicketStatus ==
  \E ticket_id \in TicketIds, status \in StatusArguments :
    LET out == update_ticket_status(action_tickets, ticket_id, status)
    IN /\ action_tickets' = out.tickets
       /\ ret' = out.ret
       /\ last' = [op |-> "update_ticket_status", ticket_id |-> ticket_id,
                   status |-> status]
       /\ UNCHANGED <<decided, disruptions, arg_disruption, arg_high_priority_count,
                 routes_db, shipments_db, arg_shipment, arg_operator_response,
                      arg_duration_hours, arg_affected_shipments, requests>>

AddTicketNote ==
  \E ticket_id \in TicketIds, note \in NoteTexts, timestamp \in Timestamps :
    LET out == add_ticket_note(action_tickets, ticket_id, note, timestamp)
    IN /\ NotesIn(out.tickets) <= MaxNotes
       /\ action_tickets' = out.tickets
       /\ ret' = out.ret
       /\ last' = [op |-> "add_ticket_note", ticket_id |-> ticket_id, note |-> note]
       /\ UNCHANGED <<decided, disruptions, arg_disruption, arg_high_priority_count,
                 routes_db, shipments_db, arg_shipment, arg_operator_response,
                      arg_duration_hours, arg_affected_shipments, requests>>

Next == CreateActionTicket \/ UpdateTicketStatus \/ AddTicketNote

Spec == Init /\ [][Next]_vars

-----------------------------------------------------------------------------
(* The ticket store under concurrent create_action_ticket requests.  Each   *)
(* request has its own session; nothing in create_action_ticket holds a     *)
(* lock between its statements, so a request is three steps: the query for  *)
(* an existing ticket, the count query, and the insert with its commit.     *)

NumRequests == 2

NewRequests ==
  {[pc |-> "find", disruption_id |-> call[1], decision |-> call[2],
    operator_id |-> o, ticket_count |-> 0, ret |-> NotCalled] :
     call \in TicketCalls, o \in OperatorIds}

InitConcurrent ==
  /\ routes_db = <<>>
  /\ shipments_db = <<>>
  /\ disruptions = seed_disruptions
  /\ arg_disruption = None
  /\ arg_high_priority_count = 0
  /\ action_tickets = <<>>
  /\ arg_shipment = None
  /\ arg_operator_response = None
  /\ arg_duration_hours = None
  /\ arg_affected_shipments = <<>>
  /\ ret = NotCalled
  /\ requests \in [1..NumRequests -> NewRequests]
  /\ last = NoOperation
  /\ decided = <<>>

\* Lines 25-34: the query for an existing ticket, and the shipment lookup.
FindExisting(r) ==
  /\ requests[r].pc = "find"
  /\ LET req == requests[r]
         existing_ticket == find_existing(action_tickets, req.disruption_id,
                                          req.decision.shipment_id)
         shipment == get_shipment_by_id(req.decision.shipment_id)
     IN /\ requests' = [requests EXCEPT ![r] =
             IF existing_ticket # None
             THEN [req EXCEPT !.pc = "done",
                              !.ret = ticket_db_to_model(existing_ticket[1])]
             ELSE IF shipment.kind = "raise"
             THEN [req EXCEPT !.pc = "done", !.ret = shipment]
             ELSE [req EXCEPT !.pc = "count"]]
        /\ shipments_db' = IF existing_ticket # None THEN shipments_db
                           ELSE get_all_shipments
  /\ UNCHANGED <<decided, disruptions, arg_disruption, arg_high_priority_count,
                 routes_db, action_tickets, arg_shipment,
                 arg_operator_response, arg_duration_hours,
                 arg_affected_shipments, ret, last>>

\* Line 37: the count query.
Count(r) ==
  /\ requests[r].pc = "count"
  /\ requests' = [requests EXCEPT ![r].pc = "insert",
                                  ![r].ticket_count = count(action_tickets)]
  /\ UNCHANGED <<decided, disruptions, arg_disruption, arg_high_priority_count,
                 routes_db, shipments_db, action_tickets, arg_shipment,
                 arg_operator_response, arg_duration_hours,
                 arg_affected_shipments, ret, last>>

\* Lines 38-61: the row is built, added and committed, and converted.
Insert(r) ==
  /\ requests[r].pc = "insert"
  /\ LET req == requests[r]
         ticket_db == new_ticket_db(req.ticket_count, req.disruption_id,
                                    req.decision, req.operator_id)
         out == IF ticket_db.kind = "raise"
                THEN [tickets |-> action_tickets, ret |-> ticket_db]
                ELSE insert(action_tickets, ticket_db.value)
     IN /\ action_tickets' = out.tickets
        /\ requests' = [requests EXCEPT ![r].pc = "done", ![r].ret = out.ret]
        /\ shipments_db' = get_all_shipments
        /\ routes_db' = IF explanation_reads_routes(req.decision)
                        THEN get_all_routes ELSE routes_db
  /\ UNCHANGED <<decided, disruptions, arg_disruption, arg_high_priority_count,
                 arg_shipment, arg_operator_response,
                 arg_duration_hours, arg_affected_shipments, ret, last>>

NextConcurrent ==
  \E r \in 1..NumRequests : FindExisting(r) \/ Count(r) \/ Insert(r)

SpecConcurrent == InitConcurrent /\ [][NextConcurrent]_vars

-----------------------------------------------------------------------------
(* Properties of the ticket store.                                          *)

RowsFor(disruption_id, shipment_id) ==
  {i \in 1..Len(action_tickets) :
     /\ action_tickets[i].disruption_id = disruption_id
     /\ action_tickets[i].shipment_id = shipment_id}

\* C1: a create_action_ticket call for a pair that has a ticket returns that
\* ticket's id, the one record the store holds for the pair; so two calls
\* for the pair return the same id (specification Spec).
C1_TicketIdempotency ==
  (/\ last.op = "create_action_ticket"
   /\ RowsFor(last.disruption_id, last.shipment_id) # {}) =>
     /\ Cardinality(RowsFor(last.disruption_id, last.shipment_id)) = 1
     /\ ret.kind = "return"
     /\ \A i \in RowsFor(last.disruption_id, last.shipment_id) :
          ret.value.id = action_tickets[i].id

\* The part of C1 about the store alone: in sequential use no pair has two
\* records.
C1_OneRecordPerPair ==
  \A i, j \in 1..Len(action_tickets) :
    (/\ action_tickets[i].disruption_id = action_tickets[j].disruption_id
     /\ action_tickets[i].shipment_id = action_tickets[j].shipment_id) => i = j

\* The part of C1 about the second call: a create_action_ticket call for a
\* pair that already has a ticket leaves the whole store as it was.
C1_RepeatLeavesStore ==
  [][(/\ last'.op = "create_action_ticket"
      /\ \E i \in 1..Len(action_tickets) :
           /\ action_tickets[i].disruption_id = last'.disruption_id
           /\ action_tickets[i].shipment_id = last'.shipment_id)
     => action_tickets' = action_tickets]_vars

\* The number a sequence of decimal digits writes.
RECURSIVE DigitsValue(_)
DigitsValue(d) ==
  IF d = <<>> THEN 0
  ELSE 10 * DigitsValue(SubSeq(d, 1, Len(d) - 1)) + d[Len(d)]

\* id is TICKET-<k>, k written with three digits at least and with no zero
\* in front of a fourth.
IsTicketId(id, k) ==
  /\ id.prefix = "TICKET-"
  /\ DigitsValue(id.digits) = k
  /\ Len(id.digits) >= 3
  /\ Len(id.digits) > 3 => id.digits[1] # 0

\* C16: in sequential use the tickets of the store are TICKET-001 ..
\* TICKET-n in the order of their creation, all distinct; and a creation
\* adds one ticket, with status pending, whose number is one more than the
\* number of tickets there were and so greater than every number in use
\* (specification Spec).
C16_TicketIdentifiers ==
  /\ [](\A i \in 1..Len(action_tickets) : IsTicketId(action_tickets[i].id, i))
  /\ [](\A i, j \in 1..Len(action_tickets) :
          action_tickets[i].id = action_tickets[j].id => i = j)
  /\ [][action_tickets' # action_tickets /\ last'.op = "create_action_ticket" =>
          LET n == Len(action_tickets)
          IN /\ Len(action_tickets') = n + 1
             /\ SubSeq(action_tickets', 1, n) = action_tickets
             /\ IsTicketId(action_tickets'[n + 1].id, n + 1)
             /\ \A i \in 1..n :
                  DigitsValue(action_tickets[i].id.digits)
                    < DigitsValue(action_tickets'[n + 1].id.digits)
             /\ action_tickets'[n + 1].status = Some("pending")]_vars

\* Two creations, the second after the status of the first ticket changed.
C16_Witness ==
  /\ last.op = "create_action_ticket"
  /\ Len(action_tickets) = 2
  /\ action_tickets[1].id = [prefix |-> "TICKET-", digits |-> <<0, 0, 1>>]
  /\ action_tickets[2].id = [prefix |-> "TICKET-", digits |-> <<0, 0, 2>>]
  /\ action_tickets[1].status = Some("approved")
  /\ action_tickets[2].status = Some("pending")

\* Two requests are for different pairs.
DifferentPairs(r1, r2) ==
  \/ requests[r1].disruption_id # requests[r2].disruption_id
  \/ requests[r1].decision.shipment_id # requests[r2].decision.shipment_id

\* C17: whatever the interleaving of concurrent create_action_ticket
\* requests for different (disruption, shipment) pairs, no two of them are
\* assigned the same identifier and none fails on an identifier conflict
\* (specification SpecConcurrent).
C17_NoDuplicateIdRace ==
  \A r1, r2 \in 1..NumRequests :
    (r1 # r2 /\ DifferentPairs(r1, r2)) =>
       /\ (requests[r1].pc = "insert" /\ requests[r2].pc = "insert")
            => requests[r1].ticket_count # requests[r2].ticket_count
       /\ requests[r1].ret.kind = "raise"
            => requests[r1].ret.exc # "IntegrityError"

\* C2: whatever the interleaving of concurrent create_action_ticket
\* requests, no two tickets of the store have the same disruption id and
\* shipment id (specification SpecConcurrent).
C2_NoDuplicatePairUnderConcurrency ==
  \A i, j \in 1..Len(action_tickets) :
    (/\ action_tickets[i].disruption_id = action_tickets[j].disruption_id
     /\ action_tickets[i].shipment_id = action_tickets[j].shipment_id) => i = j

-----------------------------------------------------------------------------
(* calculate_severity_score as a state machine: the arguments are drawn in  *)
(* the initial state and the call is one step.                              *)

MaxAffected == 12
MaxHighPriority == 12

\* Severities as the disruptions table can hold them (a String column): the
\* four of models.Severity, two written in another case, and one unknown.
SeverityInputs == {"low", "medium", "high", "critical", "HIGH", "Critical", "severe"}

\* A list of n shipments, taken round the mock shipments.
ShipmentPrefix(n) == [i \in 1..n |-> get_mock_shipments[((i - 1) % 10) + 1]]

InitSeverity ==
  /\ disruptions = seed_disruptions
  /\ routes_db = <<>>
  /\ shipments_db = <<>>
  /\ action_tickets = <<>>
  /\ arg_disruption \in
       {[id |-> "DISR-001", type |-> "port_strike",
         location |-> "Chennai Port, India", severity |-> v,
         description |-> "Labor strike", estimated_duration_hours |-> None,
         affected_routes |-> <<>>] : v \in SeverityInputs}
  /\ arg_affected_shipments \in {ShipmentPrefix(n) : n \in 0..MaxAffected}
  /\ arg_high_priority_count \in 0..MaxHighPriority
  /\ arg_shipment = None
  /\ arg_operator_response = None
  /\ arg_duration_hours = None
  /\ ret = NotCalled
  /\ requests = NoRequests
  /\ last = NoOperation
  /\ decided = <<>>

CalculateSeverityScore ==
  /\ ret = NotCalled
  /\ ret' = Return(calculate_severity_score(arg_disruption, arg_affected_shipments,
                                            arg_high_priority_count))
  /\ UNCHANGED <<decided, disruptions, arg_disruption, arg_high_priority_count,
                 routes_db, shipments_db, action_tickets, arg_shipment,
                 arg_operator_response, arg_duration_hours,
                 arg_affected_shipments, requests, last>>

NextSeverity == CalculateSeverityScore

SpecSeverity == InitSeverity /\ [][NextSeverity]_vars

\* The severity with its case folded, written out for the inputs drawn.
FoldedSeverity ==
  IF arg_disruption.severity = "HIGH" THEN "high"
  ELSE IF arg_disruption.severity = "Critical" THEN "critical"
  ELSE arg_disruption.severity

\* base, shipmentMultiplier and priorityMultiplier, each in tenths.
BaseTenths ==
  CASE FoldedSeverity = "low" -> 20
    [] FoldedSeverity = "medium" -> 50
    [] FoldedSeverity = "high" -> 75
    [] FoldedSeverity = "critical" -> 90
    [] OTHER -> 50

ShipmentTenths ==
  IF Len(arg_affected_shipments) > 10 THEN 15
  ELSE IF Len(arg_affected_shipments) \in 6..10 THEN 13
  ELSE 10

PriorityTenths == 10 + arg_high_priority_count

Uncapped == BaseTenths * ShipmentTenths * PriorityTenths

\* C18: for every severity value, known or not, every number of affected
\* shipments and every high-priority count, the score returned lies between
\* 0 and 10 (the score is in thousandths).
C18_SeverityBound ==
  ret.kind = "return" => (0 <= ret.value /\ ret.value <= 10000)

\* A critical disruption, eleven shipments, three of high priority: the
\* product is 17.55 and the score returned is 10.
C18_Witness ==
  /\ ret.kind = "return"
  /\ arg_disruption.severity = "critical"
  /\ Len(arg_affected_shipments) = 11
  /\ arg_high_priority_count = 3
  /\ Uncapped = 17550
  /\ ret.value = 10000

\* C19: the score returned is min(10, base * shipmentMultiplier *
\* priorityMultiplier), base being 2.0, 5.0, 7.5 or 9.0 for low, medium, high
\* or critical (in whatever case the severity is written) and 5.0 for any
\* other severity, shipmentMultiplier 1.5 above 10 shipments, 1.3 for 6..10
\* and 1.0 otherwise, priorityMultiplier 1 + 0.1 * highPriorityCount.
C19_SeverityFormula ==
  ret.kind = "return" =>
    ret.value = (IF Uncapped < 10000 THEN Uncapped ELSE 10000)

\* An unknown severity, six shipments, two of high priority: 5.0 * 1.3 * 1.2.
C19_Witness ==
  /\ ret.kind = "return"
  /\ arg_disruption.severity = "severe"
  /\ Len(arg_affected_shipments) = 6
  /\ arg_high_priority_count = 2
  /\ ret.value = 7800

-----------------------------------------------------------------------------
(* analyze_disruption_impact as a state machine: the tables are drawn in    *)
(* the initial state and each step is one call.                             *)

\* Two routes that cross the Pacific Ocean, and one that does not.
CatalogPacific ==
  << Route("ROUTE-001", "Chennai to Singapore", "Chennai", "Singapore", <<"Colombo">>, 7, TRUE),
     Route("ROUTE-006", "Shanghai to San Francisco", "Shanghai", "San Francisco", <<"Pacific Ocean">>, 16, TRUE),
     Route("ROUTE-016", "Shanghai to Honolulu", "Shanghai", "Honolulu", <<"Tokyo", "Pacific Ocean">>, 9, TRUE) >>

\* The mock shipments and two more: twelve in all.
ShipmentsTwelve ==
  get_mock_shipments \o
  << Shipment("SHIP-011", "ROUTE-016", "standard", 8, 48, 20, "Honolulu"),
     Shipment("SHIP-012", "ROUTE-001", "hazardous", 7, 48, 20, "Singapore") >>

\* Rows added to the disruptions table after the seeded ones; the last one
\* has a severity that models.Severity does not have.
MoreDisruptions ==
  << DisruptionDB("DISR-006", "weather", "", "high", "Location not known yet", "active"),
     DisruptionDB("DISR-007", "weather", "to", "low", "Test entry", "active"),
     DisruptionDB("DISR-008", "port_strike", "chennai port", "high", "Strike at the port", "active"),
     DisruptionDB("DISR-009", "weather", "Trans-Pacific eastbound", "critical", "Typhoon", "active"),
     DisruptionDB("DISR-010", "customs_delay", "Hong Kong", "medium", "Inspections", "active"),
     DisruptionDB("DISR-011", "weather", "Pacific Ocean", "severe", "Storm", "active") >>

\* The calls that filled the store, in order.
CreatedCalls ==
  << <<"DISR-001", DelayShip1>>, <<"DISR-001", RerouteShip2>>,
     <<"DISR-002", DelayShip1>>, <<"DISR-002", RerouteShip2>> >>

\* The store after the first n of them.
RECURSIVE StoreAfter(_)
StoreAfter(n) ==
  IF n = 0 THEN <<>>
  ELSE create_action_ticket(StoreAfter(n - 1), CreatedCalls[n][1],
                            CreatedCalls[n][2], "OP-001").tickets

DisruptionIds ==
  {seed_disruptions[i].id : i \in 1..Len(seed_disruptions)}
    \cup {MoreDisruptions[i].id : i \in 1..Len(MoreDisruptions)}
    \cup {"DISR-404"}

InitImpact ==
  /\ disruptions \in {seed_disruptions, seed_disruptions \o MoreDisruptions}
  /\ routes_db \in Catalogs \cup {CatalogPacific}
  /\ shipments_db \in {<<>>, ShipmentsTwelve}
  /\ action_tickets \in {StoreAfter(n) : n \in 0..MaxTickets}
  /\ arg_disruption = None
  /\ arg_high_priority_count = 0
  /\ arg_shipment = None
  /\ arg_operator_response = None
  /\ arg_duration_hours = None
  /\ arg_affected_shipments = <<>>
  /\ ret = NotCalled
  /\ requests = NoRequests
  /\ last = NoOperation
  /\ decided = <<>>

AnalyzeDisruptionImpact ==
  \E disruption_id \in DisruptionIds :
    /\ ret' = analyze_disruption_impact(disruption_id)
    /\ last' = [op |-> "analyze_disruption_impact", disruption_id |-> disruption_id]
    /\ routes_db' = IF reads_catalogs(disruption_id) THEN get_all_routes
                    ELSE routes_db
    /\ shipments_db' = IF reads_catalogs(disruption_id) THEN get_all_shipments
                       ELSE shipments_db
    /\ UNCHANGED <<decided, disruptions, arg_disruption, arg_high_priority_count,
                   action_tickets, arg_shipment,
                   arg_operator_response, arg_duration_hours,
                   arg_affected_shipments, requests>>

NextImpact == AnalyzeDisruptionImpact

SpecImpact == InitImpact /\ [][NextImpact]_vars

Analyzed == last.op = "analyze_disruption_impact" /\ ret.kind = "return"

AffectedRouteIds ==
  {ret.value.affected_routes[i].id : i \in 1..Len(ret.value.affected_routes)}

HighPriorityPositions ==
  {i \in 1..Len(ret.value.affected_shipments) :
     ret.value.affected_shipments[i].priority >= 8}

\* C20: in every ImpactAnalysis returned, a catalog shipment is among the
\* affected shipments exactly when its route id is the id of an affected
\* route, total_shipments_impacted is the number of affected shipments, and
\* high_priority_count is the number of them with priority >= 8 (so it is at
\* most total_shipments_impacted).
C20_ImpactCounts ==
  Analyzed =>
    LET all == get_all_shipments
        affected == ret.value.affected_shipments
    IN /\ \A k \in 1..Len(all) :
            (\E i \in 1..Len(affected) : affected[i] = all[k])
              <=> all[k].route_id \in AffectedRouteIds
       /\ \A i \in 1..Len(affected) : \E k \in 1..Len(all) : affected[i] = all[k]
       /\ ret.value.total_shipments_impacted = Len(affected)
       /\ ret.value.high_priority_count = Cardinality(HighPriorityPositions)
       /\ ret.value.high_priority_count <= ret.value.total_shipments_impacted

\* The Suez Canal closure on the seeded catalog: SHIP-005 (priority 8),
\* SHIP-008 (9) and SHIP-010 (7) are affected, the other seven are not.
C20_Witness ==
  /\ Analyzed
  /\ last.disruption_id = "DISR-003"
  /\ get_all_routes = get_mock_routes /\ get_all_shipments = get_mock_shipments
  /\ ret.value.total_shipments_impacted = 3
  /\ ret.value.high_priority_count = 2
  /\ \E i \in 1..3 : ret.value.affected_shipments[i].priority = 8

\* The row of the disruption the last call was for.
LastDisruption ==
  disruptions[CHOOSE i \in 1..Len(disruptions) : disruptions[i].id = last.disruption_id]

\* C21: in every ImpactAnalysis returned, a catalog route is among the
\* affected routes exactly when its origin occurs in the location, or its
\* destination occurs in the location, or the location occurs in its name,
\* or one of its via-points occurs in the location, or the location contains
\* "Pacific" and one of its via-points is "Pacific Ocean"; every occurrence
\* is of the exact characters, case included; and the affected routes are in
\* catalog order.
C21_RouteMatching ==
  Analyzed =>
    LET all == get_all_routes
        affected == ret.value.affected_routes
        location == LastDisruption.location
        Matches(route) ==
          \/ Contains(route.origin, location)
          \/ Contains(route.destination, location)
          \/ Contains(location, route.name)
          \/ \E k \in 1..Len(route.via_points) :
               Contains(route.via_points[k], location)
          \/ /\ Contains("Pacific", location)
             /\ "Pacific Ocean" \in {route.via_points[k] : k \in 1..Len(route.via_points)}
    IN affected = SelectSeq(all, Matches)

\* "Pacific Shipping Lane" on a catalog with routes via "Pacific Ocean": the
\* two routes match by the keyword rule alone, the third route does not
\* match.
C21_Witness ==
  /\ Analyzed
  /\ last.disruption_id = "DISR-002"
  /\ routes_db = CatalogPacific
  /\ AffectedRouteIds = {"ROUTE-006", "ROUTE-016"}
  /\ ~Contains("Pacific Ocean", "Pacific Shipping Lane")

\* The id of the last call is the id of no row of disruptions.
LastDisruptionMissing ==
  \A i \in 1..Len(disruptions) : disruptions[i].id # last.disruption_id

C22_WitnessNotFound ==
  /\ last.op = "analyze_disruption_impact"
  /\ LastDisruptionMissing
  /\ ret.kind = "raise"
  /\ routes_db = <<>> /\ shipments_db = <<>>

\* The part of C22 about the dicts of data_service themselves: a call that
\* returned leaves neither dict empty.
C22_DictsFilled ==
  [][(last'.op = "analyze_disruption_impact" /\ ret'.kind = "return") =>
       /\ routes_db' = get_all_routes /\ routes_db' # <<>>
       /\ shipments_db' = get_all_shipments /\ shipments_db' # <<>>]_vars

-----------------------------------------------------------------------------
(* The end-to-end request POST /api/tickets/{disruption_id} on the seeded   *)
(* database, one request at a time.                                         *)

RequestedDisruptionIds ==
  {seed_disruptions[i].id : i \in 1..Len(seed_disruptions)} \cup {"DISR-404"}

\* The operator of the session, or "unknown" without one.
SessionOperatorIds == {"OP-001", "unknown"}

InitEndToEnd ==
  /\ disruptions = seed_disruptions
  /\ routes_db = <<>>
  /\ shipments_db = <<>>
  /\ action_tickets = <<>>
  /\ arg_disruption = None
  /\ arg_high_priority_count = 0
  /\ arg_shipment = None
  /\ arg_operator_response = None
  /\ arg_duration_hours = None
  /\ arg_affected_shipments = <<>>
  /\ ret = NotCalled
  /\ requests = NoRequests
  /\ last = NoOperation
  /\ decided = <<>>

CreateTickets ==
  \E disruption_id \in RequestedDisruptionIds, allow_reroute \in BOOLEAN,
     operator_id \in SessionOperatorIds :
    \E out \in {create_tickets(action_tickets, disruption_id,
                                OperatorResponse(disruption_id, allow_reroute, 25),
                                operator_id)} :
       /\ Len(out.tickets) <= MaxTickets
       /\ action_tickets' = out.tickets
       /\ ret' = out.ret
       /\ last' = [op |-> "create_tickets", disruption_id |-> disruption_id]
       \* line 283: the impact analysis reads both catalogs
       /\ routes_db' = IF reads_catalogs(disruption_id) THEN get_all_routes
                       ELSE routes_db
       /\ shipments_db' = IF reads_catalogs(disruption_id) THEN get_all_shipments
                          ELSE shipments_db
       /\ UNCHANGED <<decided, disruptions, arg_disruption, arg_high_priority_count,
                      arg_shipment, arg_operator_response,
                      arg_duration_hours, arg_affected_shipments, requests>>

NextEndToEnd == CreateTickets

SpecEndToEnd == InitEndToEnd /\ [][NextEndToEnd]_vars

\* The shipments the impact analysis reports for the disruption of the last
\* request.
AffectedByLast ==
  LET impact == analyze_disruption_impact(last.disruption_id)
  IN {impact.value.affected_shipments[i].id :
        i \in 1..Len(impact.value.affected_shipments)}

LastDisruptionExists ==
  \E i \in 1..Len(disruptions) : disruptions[i].id = last.disruption_id

\* C11: when the create_tickets request for an existing disruption d has
\* completed, the store holds exactly one ticket for (d, s) for every
\* shipment s the impact analysis reports as affected by d, and the response
\* lists one ticket per affected shipment.
C11_EndToEndTickets ==
  (last.op = "create_tickets" /\ LastDisruptionExists) =>
     /\ ret.kind = "return"
     /\ Len(ret.value) = Cardinality(AffectedByLast)
     /\ \A shipment_id \in AffectedByLast :
          Cardinality(RowsFor(last.disruption_id, shipment_id)) = 1

\* The part of C11 about the repeated request: a create_tickets request for
\* a disruption that already has a ticket adds none.
C11_RepeatAddsNoTicket ==
  [][(/\ last'.op = "create_tickets"
      /\ \E i \in 1..Len(action_tickets) :
           action_tickets[i].disruption_id = last'.disruption_id)
     => action_tickets' = action_tickets]_vars

-----------------------------------------------------------------------------
(* The status operations on a store that holds tickets: the generic status  *)
(* update and the approve, reject, start and complete requests (the         *)
(* handlers registered first for these paths, main.py lines 367-412).       *)

InitStatus ==
  /\ disruptions = seed_disruptions
  /\ routes_db = <<>>
  /\ shipments_db = <<>>
  /\ action_tickets \in {StoreAfter(n) : n \in 0..MaxTickets}
  /\ arg_disruption = None
  /\ arg_high_priority_count = 0
  /\ arg_shipment = None
  /\ arg_operator_response = None
  /\ arg_duration_hours = None
  /\ arg_affected_shipments = <<>>
  /\ ret = NotCalled
  /\ requests = NoRequests
  /\ last = NoOperation
  /\ decided = <<>>

\* Lines 352-364: update_ticket_status(ticket_id, update.get("status"), db).
UpdateTicket ==
  \E ticket_id \in TicketIds, status \in StatusInputs :
    LET out == update_ticket_status(action_tickets, ticket_id, status)
    IN /\ action_tickets' = out.tickets
       /\ ret' = out.ret
       /\ last' = [op |-> "update_ticket", ticket_id |-> ticket_id,
                   status |-> status]
       /\ UNCHANGED <<decided, disruptions, arg_disruption, arg_high_priority_count,
                      routes_db, shipments_db, arg_shipment, arg_operator_response,
                      arg_duration_hours, arg_affected_shipments, requests>>

\* Lines 367-376: update_ticket_status(ticket_id, "approved", db).
ApproveTicket ==
  \E ticket_id \in TicketIds :
    LET out == update_ticket_status(action_tickets, ticket_id, Some("approved"))
    IN /\ action_tickets' = out.tickets
       /\ ret' = out.ret
       /\ last' = [op |-> "approve_ticket", ticket_id |-> ticket_id,
                   status |-> Some("approved")]
       /\ UNCHANGED <<decided, disruptions, arg_disruption, arg_high_priority_count,
                      routes_db, shipments_db, arg_shipment, arg_operator_response,
                      arg_duration_hours, arg_affected_shipments, requests>>

\* Lines 379-388: update_ticket_status(ticket_id, "rejected", db).
RejectTicket ==
  \E ticket_id \in TicketIds :
    LET out == update_ticket_status(action_tickets, ticket_id, Some("rejected"))
    IN /\ action_tickets' = out.tickets
       /\ ret' = out.ret
       /\ last' = [op |-> "reject_ticket", ticket_id |-> ticket_id,
                   status |-> Some("rejected")]
       /\ UNCHANGED <<decided, disruptions, arg_disruption, arg_high_priority_count,
                      routes_db, shipments_db, arg_shipment, arg_operator_response,
                      arg_duration_hours, arg_affected_shipments, requests>>

\* Lines 391-400: update_ticket_status(ticket_id, "in_progress", db).
StartTicket ==
  \E ticket_id \in TicketIds :
    LET out == update_ticket_status(action_tickets, ticket_id, Some("in_progress"))
    IN /\ action_tickets' = out.tickets
       /\ ret' = out.ret
       /\ last' = [op |-> "start_ticket", ticket_id |-> ticket_id,
                   status |-> Some("in_progress")]
       /\ UNCHANGED <<decided, disruptions, arg_disruption, arg_high_priority_count,
                      routes_db, shipments_db, arg_shipment, arg_operator_response,
                      arg_duration_hours, arg_affected_shipments, requests>>

\* Lines 403-412: update_ticket_status(ticket_id, "completed", db).
CompleteTicket ==
  \E ticket_id \in TicketIds :
    LET out == update_ticket_status(action_tickets, ticket_id, Some("completed"))
    IN /\ action_tickets' = out.tickets
       /\ ret' = out.ret
       /\ last' = [op |-> "complete_ticket", ticket_id |-> ticket_id,
                   status |-> Some("completed")]
       /\ UNCHANGED <<decided, disruptions, arg_disruption, arg_high_priority_count,
                      routes_db, shipments_db, arg_shipment, arg_operator_response,
                      arg_duration_hours, arg_affected_shipments, requests>>

NextStatus ==
  \/ UpdateTicketStatus
  \/ UpdateTicket
  \/ ApproveTicket
  \/ RejectTicket
  \/ StartTicket
  \/ CompleteTicket

SpecStatus == InitStatus /\ [][NextStatus]_vars

StatusOps ==
  {"update_ticket_status", "update_ticket", "approve_ticket", "reject_ticket",
   "start_ticket", "complete_ticket"}

Pending == Some("pending")

\* C12: every ticket starts in pending, and a ticket whose status has left
\* pending never has status pending again, whatever status operations
\* follow.
C12_NoReturnToPending ==
  /\ \A n \in 0..MaxTickets : \A i \in 1..Len(StoreAfter(n)) :
       StoreAfter(n)[i].status = Pending
  /\ [][\A i \in 1..Len(action_tickets) :
          action_tickets[i].status # Pending
            => action_tickets'[i].status # Pending]_vars

\* The part of C12 about the four named actions alone: approve, reject,
\* start and complete never put a ticket in pending.
C12_NamedActionsLeavePending ==
  [][last'.op \in {"approve_ticket", "reject_ticket", "start_ticket", "complete_ticket"}
     => \A i \in 1..Len(action_tickets) :
          action_tickets[i].id = last'.ticket_id
            => action_tickets'[i].status # Pending]_vars

\* C13: in every reachable state every ticket's status is one of pending,
\* approved, in_progress, completed, rejected; so an update that carries
\* another value, or none, leaves the stored status as it was.
C13_StatusDomain ==
  \A i \in 1..Len(action_tickets) :
    action_tickets[i].status \in {Some(v) : v \in TicketStatus}

\* The position of ticket_id in a store, 0 when it is not there.
PositionOf(tickets, ticket_id) ==
  IF \E i \in 1..Len(tickets) : tickets[i].id = ticket_id
  THEN CHOOSE i \in 1..Len(tickets) : tickets[i].id = ticket_id
  ELSE 0

\* The two stores differ at most in the status field of row i.
SameButStatus(tickets, other, i) ==
  /\ Len(tickets) = Len(other)
  /\ \A j \in 1..Len(tickets) :
       IF j = i THEN [tickets[j] EXCEPT !.status = other[j].status] = other[j]
       ELSE tickets[j] = other[j]

\* The two stores differ at most in the status and updated_at fields of
\* row i.
SameButStatusAndStamp(tickets, other, i) ==
  /\ Len(tickets) = Len(other)
  /\ \A j \in 1..Len(tickets) :
       IF j = i
       THEN [tickets[j] EXCEPT !.status = other[j].status,
                               !.updated_at = other[j].updated_at] = other[j]
       ELSE tickets[j] = other[j]

\* C14: update_ticket_status(t, x) on a ticket of the store succeeds, changes
\* only the status field of t, and applied again succeeds and leaves the
\* store as the first application left it; on an id that is not in the
\* store it reports not-found and leaves every ticket unchanged.
C14_IdempotentOverwrite ==
  [][last'.op \in StatusOps =>
       LET i == PositionOf(action_tickets, last'.ticket_id)
           again == update_ticket_status(action_tickets', last'.ticket_id,
                                         last'.status)
       IN IF i = 0
          THEN ret' = Return(None) /\ action_tickets' = action_tickets
          ELSE /\ ret'.kind = "return"
               /\ action_tickets'[i].status = last'.status
               /\ SameButStatus(action_tickets, action_tickets', i)
               /\ again.ret.kind = "return"
               /\ again.tickets = action_tickets']_vars

\* The part of C14 about the store alone: the status of t is overwritten,
\* nothing else but the row's updated_at changes, a second application
\* changes nothing, and an unknown id changes nothing and is answered None.
C14_StoreOverwrite ==
  [][last'.op \in StatusOps =>
       LET i == PositionOf(action_tickets, last'.ticket_id)
           again == update_ticket_status(action_tickets', last'.ticket_id,
                                         last'.status)
       IN IF i = 0
          THEN ret' = Return(None) /\ action_tickets' = action_tickets
          ELSE /\ action_tickets'[i].status = last'.status
               /\ SameButStatusAndStamp(action_tickets, action_tickets', i)
               /\ again.tickets = action_tickets']_vars

-----------------------------------------------------------------------------
(* Notes appended to the tickets of a store, one request at a time.         *)

MaxHistory == 2

NoteContents == {"carrier informed", "customs cleared"}

\* datetime.now() formatted to the second: two requests can fall in the
\* same second.
NoteTimestamps == {"2026-01-08 12:30:00", "2026-01-08 12:30:01"}

InitNotes ==
  /\ disruptions = seed_disruptions
  /\ routes_db = <<>>
  /\ shipments_db = <<>>
  /\ action_tickets \in {StoreAfter(n) : n \in 0..MaxTickets}
  /\ arg_disruption = None
  /\ arg_high_priority_count = 0
  /\ arg_shipment = None
  /\ arg_operator_response = None
  /\ arg_duration_hours = None
  /\ arg_affected_shipments = <<>>
  /\ ret = NotCalled
  /\ requests = NoRequests
  /\ last = NoOperation
  /\ decided = <<>>

AppendTicketNote ==
  \E ticket_id \in TicketIds, note \in NoteContents, timestamp \in NoteTimestamps :
    LET out == add_ticket_note(action_tickets, ticket_id, note, timestamp)
    IN /\ NotesIn(out.tickets) <= MaxHistory
       /\ action_tickets' = out.tickets
       /\ ret' = out.ret
       /\ last' = [op |-> "add_ticket_note", ticket_id |-> ticket_id, note |-> note]
       /\ UNCHANGED <<decided, disruptions, arg_disruption, arg_high_priority_count,
                      routes_db, shipments_db, arg_shipment, arg_operator_response,
                      arg_duration_hours, arg_affected_shipments, requests>>

NextNotes == AppendTicketNote

SpecNotes == InitNotes /\ [][NextNotes]_vars

\* The note history of a row: the entries of its notes text, oldest first.
History(row) == IF row.notes = None THEN <<>> ELSE row.notes[1]

\* The history of row i after the step is the history before it followed
\* by one entry that contains the note of the request.
Appended(i) ==
  LET before == History(action_tickets[i])
      after == History(action_tickets'[i])
  IN /\ Len(after) = Len(before) + 1
     /\ SubSeq(after, 1, Len(before)) = before
     /\ after[Len(after)][2] = last'.note

\* C15 as stated: add_ticket_note(t, n) on a ticket of the store leaves its
\* note history equal to the previous history followed by one new entry that
\* contains n, and changes no other field and no other ticket; on an id that
\* is not in the store it reports not-found and changes nothing.
C15_NoteAppend_AsStated ==
  [][last'.op = "add_ticket_note" =>
       LET i == PositionOf(action_tickets, last'.ticket_id)
       IN IF i = 0
          THEN ret' = Return(None) /\ action_tickets' = action_tickets
          ELSE /\ Len(action_tickets') = Len(action_tickets)
               /\ Appended(i)
               /\ [action_tickets[i] EXCEPT !.notes = action_tickets'[i].notes]
                    = action_tickets'[i]
               /\ \A j \in 1..Len(action_tickets) :
                    j # i => action_tickets'[j] = action_tickets[j]]_vars

\* C15 amended: as above, but beside the notes the row's updated_at changes
\* too (to the time of the update); no other field and no other ticket
\* changes.
C15_NoteAppend ==
  [][last'.op = "add_ticket_note" =>
       LET i == PositionOf(action_tickets, last'.ticket_id)
       IN IF i = 0
          THEN ret' = Return(None) /\ action_tickets' = action_tickets
          ELSE /\ Len(action_tickets') = Len(action_tickets)
               /\ Appended(i)
               /\ action_tickets'[i].updated_at = Some(func_now)
               /\ [action_tickets[i] EXCEPT !.notes = action_tickets'[i].notes,
                                            !.updated_at = action_tickets'[i].updated_at]
                    = action_tickets'[i]
               /\ \A j \in 1..Len(action_tickets) :
                    j # i => action_tickets'[j] = action_tickets[j]]_vars

\* A ticket with two notes, the older one first, beside a ticket with none.
C15_Witness ==
  /\ last.op = "add_ticket_note"
  /\ last.note = "customs cleared"
  /\ Len(action_tickets) = 2
  /\ Len(History(action_tickets[1])) = 2
  /\ History(action_tickets[1])[1][2] = "carrier informed"
  /\ History(action_tickets[1])[2][2] = "customs cleared"
  /\ action_tickets[2].notes = None

-----------------------------------------------------------------------------
(* get_alternative_routes as a state machine: the catalog is drawn in the   *)
(* initial state and each step is one call.                                 *)

Origins == {"Chennai", "Rotterdam", "Mumbai", "Lisbon"}
LookupDestinations == {"Singapore", "Dubai", "Mumbai", "Chennai"}
Exclusions ==
  {{}, {"ROUTE-001"}, {"ROUTE-011", "ROUTE-012"}, {"ROUTE-001", "ROUTE-999"}}

InitAlternatives ==
  /\ disruptions = seed_disruptions
  /\ routes_db \in Catalogs
  /\ shipments_db = <<>>
  /\ action_tickets = <<>>
  /\ arg_disruption = None
  /\ arg_high_priority_count = 0
  /\ arg_shipment = None
  /\ arg_operator_response = None
  /\ arg_duration_hours = None
  /\ arg_affected_shipments = <<>>
  /\ ret = NotCalled
  /\ requests = NoRequests
  /\ last = NoOperation
  /\ decided = <<>>

GetAlternativeRoutes ==
  \E origin \in Origins, destination \in LookupDestinations,
     exclude_route_ids \in Exclusions :
    /\ ret' = Return(get_alternative_routes(origin, destination, exclude_route_ids))
    /\ last' = [op |-> "get_alternative_routes", origin |-> origin,
                destination |-> destination,
                exclude_route_ids |-> exclude_route_ids]
    \* line 128: get_all_routes fills an empty routes_db
    /\ routes_db' = get_all_routes
    /\ UNCHANGED <<decided, disruptions, arg_disruption, arg_high_priority_count,
                   shipments_db, action_tickets, arg_shipment,
                   arg_operator_response, arg_duration_hours,
                   arg_affected_shipments, requests>>

NextAlternatives == GetAlternativeRoutes

SpecAlternatives == InitAlternatives /\ [][NextAlternatives]_vars

\* The positions in the catalog of the routes that qualify for the last
\* lookup.
QualifyingPositions ==
  LET all == get_all_routes
  IN {i \in 1..Len(all) : /\ all[i].is_active
                          /\ all[i].origin = last.origin
                          /\ all[i].destination = last.destination
                          /\ all[i].id \notin last.exclude_route_ids}

\* C23: get_alternative_routes returns (it never fails) the catalog routes
\* that are active, have the origin and the destination asked for and an id
\* that is not excluded: each of them once, no other route, in catalog
\* order; so no inactive and no excluded route, and the empty list when no
\* route qualifies.
C23_AlternativeRoutes ==
  last.op = "get_alternative_routes" =>
    LET all == get_all_routes
        found == ret.value
    IN /\ ret.kind = "return"
       /\ Len(found) = Cardinality(QualifyingPositions)
       /\ \A i \in QualifyingPositions : \E k \in 1..Len(found) : found[k] = all[i]
       /\ \A k \in 1..Len(found) : \E i \in QualifyingPositions : found[k] = all[i]
       /\ \A j, k \in 1..Len(found) :
            j < k => \E i1, i2 \in QualifyingPositions :
                       i1 < i2 /\ found[j] = all[i1] /\ found[k] = all[i2]
       /\ \A k \in 1..Len(found) :
            found[k].is_active /\ found[k].id \notin last.exclude_route_ids
       /\ QualifyingPositions = {} => found = <<>>

\* Chennai to Singapore with ROUTE-001 excluded, on a catalog that has three
\* active routes for it beside ROUTE-001 and an inactive one.
C23_Witness ==
  /\ last.op = "get_alternative_routes"
  /\ last.origin = "Chennai" /\ last.destination = "Singapore"
  /\ last.exclude_route_ids = {"ROUTE-001"}
  /\ routes_db = CatalogAlternatives
  /\ [k \in 1..Len(ret.value) |-> ret.value[k].id]
       = <<"ROUTE-011", "ROUTE-012", "ROUTE-013">>

\* A lookup that no route qualifies for.
C23_WitnessEmpty ==
  /\ last.op = "get_alternative_routes"
  /\ last.origin = "Lisbon"
  /\ ret = Return(<<>>)

-----------------------------------------------------------------------------
(* A caller that repeats one make_decision call, with create_action_ticket  *)
(* calls by others in between.  The arguments of the call and the catalog   *)
(* are drawn in the initial state.                                          *)

MaxDecisions == 2

InitRepeated ==
  /\ disruptions = seed_disruptions
  /\ routes_db \in {<<>>, CatalogAlternatives, CatalogTie}
  /\ shipments_db = <<>>
  /\ action_tickets = <<>>
  /\ arg_disruption = None
  /\ arg_high_priority_count = 0
  /\ arg_shipment \in {get_mock_shipments[1], get_mock_shipments[2],
                       Shipment("SHIP-999", "ROUTE-999", "perishable", 9, 24, 30, "Dubai")}
  /\ arg_operator_response \in OperatorResponses
  /\ arg_duration_hours \in {None, Some(72), Some(200)}
  /\ arg_affected_shipments = <<>>
  /\ ret = NotCalled
  /\ requests = NoRequests
  /\ last = NoOperation
  /\ decided = <<>>

\* One more call; the caller keeps what it was returned, and beside it what
\* routes_db held and how many tickets the store held at the call.
MakeDecisionAgain ==
  /\ Len(decided) < MaxDecisions
  /\ \E outcome \in {make_decision(arg_shipment, arg_operator_response,
                                    arg_duration_hours)} :
       /\ ret' = outcome
       /\ decided' = Append(decided, [outcome |-> outcome, routes_db |-> routes_db,
                                      tickets |-> Len(action_tickets)])
  /\ routes_db' = get_all_routes
  /\ last' = [op |-> "make_decision"]
  /\ UNCHANGED <<disruptions, arg_disruption, arg_high_priority_count,
                 shipments_db, action_tickets, arg_shipment,
                 arg_operator_response, arg_duration_hours,
                 arg_affected_shipments, requests>>

NextRepeated == MakeDecisionAgain \/ CreateActionTicket

SpecRepeated == InitRepeated /\ [][NextRepeated]_vars

C24_WitnessReroute ==
  /\ Len(decided) = 2
  /\ decided[1].tickets < decided[2].tickets
  /\ decided[1].outcome.kind = "return"
  /\ decided[1].outcome.value.action = "reroute"
  /\ decided[2].outcome = decided[1].outcome

-----------------------------------------------------------------------------
(* The shape of a decision (specification SpecDecide).                      *)

\* Confidence in hundredths, by action (lines 153, 166, 179).
ConfidenceOf(action) ==
  IF action = "reroute" THEN 90 ELSE IF action = "delay" THEN 85 ELSE 95

RouteResolves ==
  \E i \in 1..Len(get_all_routes) : get_all_routes[i].id = arg_shipment.route_id

\* C25: for a shipment whose route resolves make_decision returns one
\* decision, for that shipment, whose action is reroute, delay or escalate and
\* whose confidence is 0.90, 0.85 or 0.95 by the action; a reroute names an
\* active route other than the current one, a delay has cost impact 0 and no
\* alternative route, an escalation has no cost impact, no delay hours and no
\* alternative route.
C25_DecisionShape ==
  (ret # NotCalled /\ RouteResolves) =>
    /\ Decided
    /\ ret.value.shipment_id = arg_shipment.id
    /\ ret.value.action \in {"reroute", "delay", "escalate"}
    /\ ret.value.confidence_score = ConfidenceOf(ret.value.action)
    /\ ret.value.action = "reroute" =>
         /\ ret.value.alternative_route_id # None
         /\ ret.value.alternative_route_id[1] # arg_shipment.route_id
         /\ \E i \in 1..Len(get_all_routes) :
              /\ get_all_routes[i].id = ret.value.alternative_route_id[1]
              /\ get_all_routes[i].is_active
    /\ ret.value.action = "delay" =>
         /\ ret.value.estimated_cost_impact = Some(0)
         /\ ret.value.alternative_route_id = None
    /\ ret.value.action = "escalate" =>
         /\ ret.value.estimated_cost_impact = None
         /\ ret.value.estimated_delay_hours = None
         /\ ret.value.alternative_route_id = None

\* A reroute on the catalog that also holds an inactive route for the pair.
C25_Witness ==
  /\ Decided /\ RouteResolves
  /\ routes_db = CatalogAlternatives
  /\ ret.value.action = "reroute"
  /\ ret.value.alternative_route_id = Some("ROUTE-012")

C25_WitnessDelay ==
  /\ Decided /\ RouteResolves
  /\ ret.value.action = "delay"
  /\ ret.value.estimated_delay_hours = Some(72)

C25_WitnessEscalate ==
  /\ Decided /\ RouteResolves
  /\ ret.value.action = "escalate"
  /\ AlternativePositions # {}

\* C26: a delay that make_decision returns is for no more hours than the
\* shipment's delay tolerance, as the explanation of a delay ticket says
\* ("the expected delay of ... hours is within the shipment's tolerance").
C26_DelayWithinTolerance ==
  (Decided /\ ret.value.action = "delay") =>
     ret.value.estimated_delay_hours[1] <= arg_shipment.delay_tolerance_hours

\* The delays of the high- and medium-priority branches are within the
\* tolerance; the branch for priorities below 4 compares nothing to it.
C26_DelayWithinToleranceFromPriority4 ==
  (Decided /\ ret.value.action = "delay" /\ arg_shipment.priority >= 4) =>
     ret.value.estimated_delay_hours[1] <= arg_shipment.delay_tolerance_hours

-----------------------------------------------------------------------------
(* The operator's cost threshold (specification SpecProcess).               *)

\* C27: a reroute that process_disruption_decisions returns has a cost
\* impact of no more than the operator's max_cost_increase_percent, as the
\* decision summary says ("all reroutes stay within your ...% cost
\* threshold").
C27_RerouteWithinCostThreshold ==
  ret.kind = "return" =>
    \A i \in 1..Len(ret.value) :
      ret.value[i].action = "reroute" =>
        ret.value[i].estimated_cost_impact[1]
          <= arg_operator_response.max_cost_increase_percent

\* A reroute to a route that is no slower than the current one costs 0 and
\* is within every threshold.
C27_FasterRerouteWithinThreshold ==
  (ret.kind = "return" /\ routes_db # CatalogSlower) =>
    \A i \in 1..Len(ret.value) :
      ret.value[i].action = "reroute" =>
        ret.value[i].estimated_cost_impact[1]
          <= arg_operator_response.max_cost_increase_percent

-----------------------------------------------------------------------------
(* The operator's veto (specification SpecDecide).                          *)

\* What the call would return to an operator who allows rerouting.
IfAllowed ==
  make_decision(arg_shipment, [arg_operator_response EXCEPT !.allow_reroute = TRUE],
                arg_duration_hours)

WouldReroute == IfAllowed.kind = "return" /\ IfAllowed.value.action = "reroute"

\* C28: when the operator does not allow rerouting make_decision returns no
\* reroute; a call that would have rerouted returns a delay or an escalation.
C28_OperatorVeto ==
  (ret # NotCalled /\ ~arg_operator_response.allow_reroute) =>
    /\ Decided => ret.value.action # "reroute"
    /\ WouldReroute => Decided /\ ret.value.action \in {"delay", "escalate"}

\* A perishable low-priority shipment that would have been rerouted is
\* delayed.
C28_Witness ==
  /\ Decided /\ ~arg_operator_response.allow_reroute
  /\ WouldReroute
  /\ ret.value.action = "delay"

\* A high-priority shipment that would have been rerouted is escalated.
C28_WitnessEscalate ==
  /\ Decided /\ ~arg_operator_response.allow_reroute
  /\ WouldReroute
  /\ arg_shipment.priority >= 8
  /\ ret.value.action = "escalate"

-----------------------------------------------------------------------------
(* Ticket creation that ends with an error (specification Spec).            *)

\* C29: a create_action_ticket call that ends with an error (unknown
\* shipment, alternative route that does not resolve, failure while the
\* returned ticket is built) leaves the ticket store as it was before the
\* call; a ticket is added to the store only by a call that returns it.
C29_FailureAtomicity ==
  [][last'.op = "create_action_ticket" =>
       /\ ret'.kind = "raise" => action_tickets' = action_tickets
       /\ action_tickets' # action_tickets => ret'.kind = "return"]_vars

\* The errors raised before the row is added (shipment or route not
\* found) leave the store as it was.
C29_LookupErrorsLeaveStore ==
  [][(/\ last'.op = "create_action_ticket"
      /\ ret'.kind = "raise"
      /\ ret'.exc = "ValueError"
      /\ ret'.what \in {"Shipment", "Route"}) => action_tickets' = action_tickets]_vars

-----------------------------------------------------------------------------
(* The decision engine on the seeded catalog: the shipment is one of the    *)
(* mock shipments and routes_db is empty or already holds the mock routes.  *)

SeededShipments == {get_mock_shipments[i] : i \in 1..Len(get_mock_shipments)}

InitSeeded ==
  /\ disruptions = seed_disruptions
  /\ routes_db \in {<<>>, get_mock_routes}
  /\ shipments_db \in {<<>>, get_mock_shipments}
  /\ action_tickets = <<>>
  /\ arg_disruption = None
  /\ arg_high_priority_count = 0
  /\ arg_shipment \in SeededShipments
  /\ arg_operator_response \in ProcessOperatorResponses
  /\ arg_duration_hours \in Durations
  /\ arg_affected_shipments = <<>>
  /\ ret = NotCalled
  /\ requests = NoRequests
  /\ last = NoOperation
  /\ decided = <<>>

\* decision_engine.py lines 37-44: the lookup of the current route and of
\* the alternatives for the shipment, as make_decision makes it.
AlternativesOfShipment ==
  /\ ret = NotCalled
  /\ \E current_route \in {get_route_by_id(arg_shipment.route_id)} :
       IF current_route.kind = "raise"
       THEN /\ ret' = current_route
            /\ last' = [op |-> "get_route_by_id", route_id |-> arg_shipment.route_id]
       ELSE /\ ret' = Return(get_alternative_routes(current_route.value.origin,
                                                    arg_shipment.destination,
                                                    {arg_shipment.route_id}))
            /\ last' = [op |-> "get_alternative_routes",
                        origin |-> current_route.value.origin,
                        destination |-> arg_shipment.destination,
                        exclude_route_ids |-> {arg_shipment.route_id}]
  /\ routes_db' = get_all_routes
  /\ UNCHANGED <<decided, disruptions, arg_disruption, arg_high_priority_count,
                 shipments_db, action_tickets, arg_shipment,
                 arg_operator_response, arg_duration_hours,
                 arg_affected_shipments, requests>>

NextSeeded == MakeDecision \/ AlternativesOfShipment

SpecSeeded == InitSeeded /\ [][NextSeeded]_vars

\* Two routes of the catalog with one origin and one destination.
SharePair(all) ==
  \E i, j \in 1..Len(all) :
    /\ i # j
    /\ all[i].origin = all[j].origin
    /\ all[i].destination = all[j].destination

\* C30: on the seeded catalog (ROUTE-001..010, SHIP-001..010) no two routes
\* have the same origin and destination; get_alternative_routes returns the
\* empty list for every seeded shipment, and make_decision returns a delay
\* or an escalation, never a reroute, for every seeded shipment, duration
\* and operator response.
C30_SeededCatalog ==
  /\ Len(get_all_routes) = 10 /\ Len(get_all_shipments) = 10
  /\ ~SharePair(get_all_routes)
  /\ last.op = "get_alternative_routes" => ret = Return(<<>>)
  /\ (ret # NotCalled /\ last = NoOperation) =>
       /\ Decided
       /\ ret.value.action \in {"delay", "escalate"}

\* The perishable shipment of highest priority, 72 hours, rerouting allowed:
\* escalated for want of an alternative.
C30_Witness ==
  /\ last = NoOperation /\ Decided
  /\ arg_shipment.id = "SHIP-004"
  /\ arg_duration_hours = Some(72)
  /\ arg_operator_response.allow_reroute
  /\ ret.value.action = "escalate"

\* The lookup of alternatives for a seeded shipment has returned.
C30_WitnessAlternatives ==
  /\ last.op = "get_alternative_routes"
  /\ arg_shipment.id = "SHIP-001"
  /\ ret = Return(<<>>)
  /\ routes_db = get_mock_routes

====
